---- MODULE Spec2Model ----
(***************************************************************************)
(* Related-applications engine of awesome-selfhosted-web-gen               *)
(* (src/aswg/related_apps.py, class RelatedAppsFinder).                    *)
(*                                                                         *)
(* Python strings are TLA+ strings, read one character at a time with      *)
(* SubSeq.  Optional values are sequences: <<>> is None, <<v>> is v.       *)
(* A dict is a function; dict.get(k, d) is Get(dict, k, d).                *)
(* Phrase weights are floats in the code; the model keeps them exact, in   *)
(* units of 1/WeightScale (every factor has one decimal place).            *)
(***************************************************************************)
EXTENDS Integers, Sequences, FiniteSets, TLC

---------------------------------------------------------------------------
(* Python built-ins on strings, lists and dicts *)

None == <<>>
Some(v) == <<v>>
IsNone(o) == o = <<>>
Val(o) == o[1]

Get(dict, key, default) == IF key \in DOMAIN dict THEN dict[key] ELSE default

Range(seq) == {seq[i] : i \in 1..Len(seq)}

CharAt(s, i) == SubSeq(s, i, i)

Lowers == "abcdefghijklmnopqrstuvwxyz"
Uppers == "ABCDEFGHIJKLMNOPQRSTUVWXYZ"
Digits == "0123456789"
Spaces == {" "}

LowerSet == {CharAt(Lowers, i) : i \in 1..Len(Lowers)}
UpperSet == {CharAt(Uppers, i) : i \in 1..Len(Uppers)}
DigitSet == {CharAt(Digits, i) : i \in 1..Len(Digits)}

\* the uppercase letters that have no lowercase form, such as U+2102
\* (double-struck capital C), written here as "$": str.isupper() holds of
\* them, str.lower() leaves them as they are, and \w matches them
UncasedCapitals == {"$"}

\* str.isupper() of one character
IsUpper(c) == c \in UpperSet \/ c \in UncasedCapitals

\* the characters of the model in code-point order (str comparison)
CodeOrder == " -.0123456789ABCDEFGHIJKLMNOPQRSTUVWXYZ_abcdefghijklmnopqrstuvwxyz"

Ord(c) == CHOOSE i \in 1..Len(CodeOrder) : CharAt(CodeOrder, i) = c

\* regex classes \w, \s, \d
IsWordChar(c) ==
    c \in LowerSet \/ IsUpper(c) \/ c \in DigitSet \/ c = "_"
IsSpace(c) == c \in Spaces
IsDigit(c) == c \in DigitSet

\* str.lower()
LowerChar(c) ==
    IF c \in UpperSet
    THEN CharAt(Lowers, CHOOSE i \in 1..Len(Uppers) : CharAt(Uppers, i) = c)
    ELSE c

\* the string of f(c) for the characters c of s[i..j], in order
RECURSIVE MapChars(_, _, _, _)
MapChars(f(_, _), s, i, j) ==
    IF i > j THEN ""
    ELSE IF i = j THEN f(s, i)
    ELSE LET mid == (i + j) \div 2
             Half(lo, hi) == MapChars(f, s, lo, hi)
         IN  Half(i, mid) \o Half(mid + 1, j)

LowerAt(s, i) == LowerChar(CharAt(s, i))

lower(s) == MapChars(LowerAt, s, 1, Len(s))

\* a < b on str
RECURSIVE StrLess(_, _)
StrLess(a, b) ==
    IF b = "" THEN FALSE
    ELSE IF a = "" THEN TRUE
    ELSE IF Head(a) = Head(b) THEN StrLess(Tail(a), Tail(b))
    ELSE Ord(Head(a)) < Ord(Head(b))

\* str.strip()
\* str.strip(): from the first to the last non-whitespace character
strip(s) ==
    LET kept == {i \in 1..Len(s) : ~IsSpace(CharAt(s, i))}
    IN  IF kept = {} THEN ""
        ELSE SubSeq(s, CHOOSE i \in kept : \A k \in kept : i <= k,
                       CHOOSE j \in kept : \A k \in kept : k <= j)

\* str.split(): the maximal runs of non-whitespace, left to right
split(s) ==
    LET starts == {i \in 1..Len(s) :
                      /\ ~IsSpace(CharAt(s, i))
                      /\ (i = 1 \/ IsSpace(CharAt(s, i - 1)))}
        EndOf(i) == CHOOSE j \in i..Len(s) :
                      /\ \A k \in i..j : ~IsSpace(CharAt(s, k))
                      /\ (j = Len(s) \/ IsSpace(CharAt(s, j + 1)))
        Nth(n) == CHOOSE i \in starts : Cardinality({k \in starts : k < i}) = n - 1
    IN  [n \in 1..Cardinality(starts) |-> SubSeq(s, Nth(n), EndOf(Nth(n)))]

\* " ".join(words[i..j])
RECURSIVE JoinRange(_, _, _)
JoinRange(words, i, j) ==
    IF i > j THEN ""
    ELSE IF i = j THEN words[i]
    ELSE LET mid == (i + j) \div 2
             Half(lo, hi) == JoinRange(words, lo, hi)
         IN  Half(i, mid) \o " " \o Half(mid + 1, j)

join(words) == JoinRange(words, 1, Len(words))

\* needle in haystack (substring)
Contains(haystack, needle) ==
    \E i \in 1..(Len(haystack) - Len(needle) + 1) :
        SubSeq(haystack, i, i + Len(needle) - 1) = needle

StartsWith(s, prefix) ==
    Len(s) >= Len(prefix) /\ SubSeq(s, 1, Len(prefix)) = prefix

RECURSIVE SumSeq(_)
SumSeq(seq) == IF seq = <<>> THEN 0 ELSE Head(seq) + SumSeq(Tail(seq))

Min(a, b) == IF a <= b THEN a ELSE b

---------------------------------------------------------------------------
(* Text normalisation and phrase extraction *)

\* re.sub(r"[^\w\s\-]", " ", text)
SubPunctuationAt(s, i) ==
    LET c == CharAt(s, i)
    IN  IF IsWordChar(c) \/ IsSpace(c) \/ c = "-" THEN c ELSE " "

SubPunctuation(s) == MapChars(SubPunctuationAt, s, 1, Len(s))

\* re.sub(r"\s+", " ", text): a run of whitespace leaves one space, at its
\* first character
CollapseSpacesAt(s, i) ==
    IF ~IsSpace(CharAt(s, i)) THEN CharAt(s, i)
    ELSE IF i > 1 /\ IsSpace(CharAt(s, i - 1)) THEN ""
    ELSE " "

CollapseSpaces(s) == MapChars(CollapseSpacesAt, s, 1, Len(s))

NormalizeText(description) ==
    strip(CollapseSpaces(SubPunctuation(lower(description))))

\* generic_words of _is_generic_word
generic_words == {
    "the", "a", "an", "and", "or", "but",
    "in", "on", "at", "to", "for", "of",
    "with", "by", "from", "up", "about", "into",
    "through", "during", "before", "after", "above", "below",
    "between", "among", "your", "is", "are", "was",
    "were", "be", "been", "have", "has", "had",
    "do", "does", "did", "will", "would", "could",
    "should", "may", "might", "must", "can", "that",
    "which", "who", "when", "where", "why", "how",
    "all", "any", "both", "each", "few", "more",
    "most", "other", "some", "such", "only", "own",
    "same", "so", "than", "too", "very", "just",
    "now", "also", "different", "small", "large", "new",
    "old", "good", "great", "first", "last", "long",
    "little", "right", "big", "high", "following", "local",
    "sure", "using", "used", "use", "like", "way",
    "make", "get", "go", "know", "take", "see",
    "come", "think", "look", "want", "give", "without",
    "including", "provides", "allows", "supports", "best", "free",
    "powerful", "easy", "simple", "fast", "secure", "reliable",
    "open-source", "open source", "self-hosted", "self hosted", "community", "enterprise",
    "lightweight", "high-performance" }

_is_generic_word(word) == word \in generic_words

\* str.isdigit()
isdigit(s) == s # "" /\ \A i \in 1..Len(s) : IsDigit(CharAt(s, i))

\* the alternatives of the four useless_patterns, each followed by \s
useless_prefixes == {
    "with", "and", "for", "the", "a", "an",
    "is", "are", "can", "will", "has", "have",
    "you", "your", "it", "its", "this", "that",
    "also", "using", "used", "like", "such" }

\* the useless_patterns without their trailing \s
MatchesUselessPrefix(phrase) ==
    \E w \in useless_prefixes : StartsWith(phrase, w)

\* re.search(r"^(w1|w2|...)\s", phrase) for one of the useless_patterns
MatchesUselessPattern(phrase) ==
    \E w \in useless_prefixes :
        /\ Len(phrase) > Len(w)
        /\ SubSeq(phrase, 1, Len(w)) = w
        /\ IsSpace(CharAt(phrase, Len(w) + 1))

_is_significant_phrase(phrase, length) ==
    IF length = 1
    THEN Len(phrase) > 3 /\ ~isdigit(phrase) /\ ~_is_generic_word(phrase)
    ELSE LET words == split(phrase)
             generic_word_count ==
                 Cardinality({i \in 1..Len(words) : _is_generic_word(words[i])})
         IN  IF 2 * generic_word_count > Len(words) THEN FALSE
             ELSE IF MatchesUselessPattern(phrase) THEN FALSE
             ELSE IF length > 1
                  THEN ~(\A i \in 1..Len(words) : Len(words[i]) <= 2)
                  ELSE FALSE

\* the windows with range(len(words) - length) as the inner loop: the
\* last window of every length is missing
WindowsWithoutLast(words) ==
    {v \in (1..4) \X (1..Len(words)) : v[2] <= Len(words) - v[1]}

\* the candidate phrases of the two nested loops: every window of 1..4 words
Windows(words) ==
    {v \in (1..4) \X (1..Len(words)) : v[2] <= Len(words) - v[1] + 1}

_extract_significant_phrases(description) ==
    IF description = None \/ Val(description) = "" THEN {}
    ELSE LET text == NormalizeText(Val(description))
             words == split(text)
             phraseAt(w) == join(SubSeq(words, w[2], w[2] + w[1] - 1))
         IN  {phraseAt(w) : w \in
                 {v \in Windows(words) :
                     /\ ~(v[1] = 1 /\ _is_generic_word(phraseAt(v)))
                     /\ _is_significant_phrase(phraseAt(v), v[1])}}

---------------------------------------------------------------------------
(* Phrase weighting: weights in units of 1/WeightScale *)

WeightScale == 10 * 10 * 10 * 10 * 10

common_buzzwords == {
    "server", "web", "management", "platform", "system", "application",
    "lightweight", "high-performance", "modern" }

\* re.search(r"\b\w+[-_]\w+\b", phrase): a hyphen or underscore with a word
\* character on either side (the runs of \w around it end at word boundaries)
HasCompoundToken(phrase) ==
    \E i \in 2..(Len(phrase) - 1) :
        /\ CharAt(phrase, i) \in {"-", "_"}
        /\ IsWordChar(CharAt(phrase, i - 1))
        /\ IsWordChar(CharAt(phrase, i + 1))

\* re.search(r"\d+", phrase): any digit
HasAnyDigit(phrase) ==
    \E i \in 1..Len(phrase) : IsDigit(CharAt(phrase, i))

\* re.search(r"\b\d+\b", phrase): a maximal run of \w made of digits only
HasStandaloneNumber(phrase) ==
    \E i \in 1..Len(phrase) : \E j \in i..Len(phrase) :
        /\ \A k \in i..j : IsDigit(CharAt(phrase, k))
        /\ (i = 1 \/ ~IsWordChar(CharAt(phrase, i - 1)))
        /\ (j = Len(phrase) \/ ~IsWordChar(CharAt(phrase, j + 1)))

\* any(word[0].isupper() for word in phrase.split() if len(word) > 1)
HasCapitalizedWord(phrase) ==
    LET words == split(phrase) IN
    \E i \in 1..Len(words) : Len(words[i]) > 1 /\ IsUpper(Head(words[i]))

\* avg_word_length > 6, with avg = sum(len(word)) / len(words)
AvgWordLengthOver(words, n) ==
    SumSeq([i \in 1..Len(words) |-> Len(words[i])]) > n * Len(words)

HasBuzzword(phrase) == \E buzz \in common_buzzwords : Contains(phrase, buzz)

BaseWeight(word_count) ==
    IF word_count = 1 THEN 2
    ELSE IF word_count = 2 THEN 4
    ELSE IF word_count = 3 THEN 6
    ELSE 8

\* weight *= tenths / 10 when the condition applies
Times(weight, applies, tenths) ==
    IF applies THEN (weight * tenths) \div 10 ELSE weight

_calculate_phrase_weight(phrase) ==
    Times(Times(Times(Times(Times(
        BaseWeight(Len(split(phrase))) * WeightScale,
        HasCompoundToken(phrase), 13),
        HasCapitalizedWord(phrase), 12),
        AvgWordLengthOver(split(phrase), 6), 11),
        HasBuzzword(phrase), 9),
        HasStandaloneNumber(phrase), 11)

---------------------------------------------------------------------------
(* Python floats (IEEE 754 binary64, round to nearest, ties to even) for the
   values the scores take: doubles from 1/2 up to 2^8, each held exactly as
   a count of units of 2^-53, written in limbs of 13 bits, least significant
   first *)

\* significant bits of a double
MantissaBits == 53

LimbBits == 13
Limb == 2^LimbBits
NumLimbs == 10
Limbs == 1..NumLimbs

BigOf(n) == [i \in Limbs |-> IF i = 1 THEN n ELSE 0]

\* carry propagation over column sums
RECURSIVE Carried(_, _, _)
Carried(cols, i, carry) ==
    IF i > Len(cols) THEN <<>>
    ELSE <<(cols[i] + carry) % Limb>>
             \o Carried(cols, i + 1, (cols[i] + carry) \div Limb)

BigAdd(a, b) == Carried([i \in Limbs |-> a[i] + b[i]], 1, 0)

BigMul(a, b) ==
    Carried([k \in Limbs |->
                SumSeq([i \in 1..k |-> a[i] * b[k + 1 - i]])], 1, 0)

\* a * 2^s and a \div 2^s
BigShiftLeft(a, s) ==
    LET whole == s \div LimbBits
        bits == s % LimbBits
        At0(j) == IF j >= 1 THEN a[j] ELSE 0
    IN  [i \in Limbs |->
            ((At0(i - whole) * (2^bits)) % Limb)
                + (At0(i - whole - 1) \div (2^(LimbBits - bits)))]

BigShiftRight(a, s) ==
    LET whole == s \div LimbBits
        bits == s % LimbBits
        At0(j) == IF j <= Len(a) THEN a[j] ELSE 0
    IN  [i \in Limbs |->
            (At0(i + whole) \div (2^bits))
                + ((At0(i + whole + 1) % (2^bits)) * (2^(LimbBits - bits)))]

\* a % 2^s
BigLowBits(a, s) ==
    [i \in Limbs |->
        IF i <= (s \div LimbBits) THEN a[i]
        ELSE IF i = (s \div LimbBits) + 1 THEN a[i] % (2^(s % LimbBits))
        ELSE 0]

BigLess(a, b) ==
    \E i \in Limbs : a[i] < b[i] /\ \A j \in Limbs : j > i => a[j] = b[j]

\* number of bits of a > 0
BigBitLength(a) ==
    LET top == CHOOSE i \in Limbs : a[i] # 0 /\ \A j \in Limbs : j > i => a[j] = 0
        bits == CHOOSE n \in 1..LimbBits :
                    (2^(n - 1)) <= a[top] /\ a[top] < (2^n)
    IN  (top - 1) * LimbBits + bits

\* a \div d and a % d for a small d
RECURSIVE BigDivSmallFrom(_, _, _, _)
BigDivSmallFrom(a, d, i, rem) ==
    IF i = 0 THEN <<>>
    ELSE BigDivSmallFrom(a, d, i - 1, (rem * Limb + a[i]) % d)
             \o <<(rem * Limb + a[i]) \div d>>

BigDivSmall(a, d) == BigDivSmallFrom(a, d, Len(a), 0)

RECURSIVE BigModSmallFrom(_, _, _, _)
BigModSmallFrom(a, d, i, rem) ==
    IF i = 0 THEN rem
    ELSE BigModSmallFrom(a, d, i - 1, (rem * Limb + a[i]) % d)

BigModSmall(a, d) == BigModSmallFrom(a, d, Len(a), 0)

\* the element of a singleton set; {F(x) : x \in {e}} has e evaluated once
TheOne(S) == CHOOSE v \in S : TRUE

\* a without its s lowest bits, rounded to nearest, ties to even
RoundedQuotient(a, s) ==
    TheOne({IF \/ BigLess(half, r)
               \/ r = half /\ q[1] % 2 = 1
            THEN BigAdd(q, BigOf(1)) ELSE q :
                q \in {BigShiftRight(a, s)},
                r \in {BigLowBits(a, s)},
                half \in {BigShiftLeft(BigOf(1), s - 1)}})

\* the nearest number with at most 53 significant bits
RoundDouble(a) ==
    TheOne({IF x = BigOf(0) THEN x
            ELSE TheOne({IF bits <= MantissaBits THEN x
                         ELSE TheOne({BigShiftLeft(q, bits - MantissaBits) :
                                 q \in {RoundedQuotient(x, bits - MantissaBits)}}) :
                             bits \in {BigBitLength(x)}}) :
                x \in {a}})

\* float(n) for a small int n
FloatOfInt(n) == BigShiftLeft(BigOf(n), MantissaBits)

\* the double a decimal literal n/10 denotes: the quotient with 13 more
\* bits, made odd when the division leaves a remainder, rounded
FloatOfTenths(n) ==
    TheOne({BigShiftRight(rounded, LimbBits) :
               rounded \in
                   {RoundDouble(IF BigModSmall(scaled, 10) # 0 /\ quotient[1] % 2 = 0
                                THEN BigAdd(quotient, BigOf(1)) ELSE quotient) :
                       scaled \in {BigShiftLeft(BigOf(n), MantissaBits + LimbBits)},
                       quotient \in {BigDivSmall(BigShiftLeft(BigOf(n),
                                                  MantissaBits + LimbBits), 10)}}})

\* x + y and x * y on floats
FloatAdd(x, y) ==
    TheOne({RoundDouble(BigAdd(u, v)) : u \in {x}, v \in {y}})

FloatMul(x, y) ==
    TheOne({BigShiftRight(rounded, MantissaBits) :
               rounded \in {RoundDouble(BigMul(u, v)) : u \in {x}, v \in {y}}})

\* int(x): truncation toward zero of a float below 2^8
FloatTrunc(x) ==
    TheOne({whole[1] + whole[2] * Limb :
               whole \in {BigShiftRight(x, MantissaBits)}})

\* weight *= factor when the condition applies
FloatTimes(weight, applies, tenths) ==
    TheOne({IF applies THEN FloatMul(w, FloatOfTenths(tenths)) ELSE w :
               w \in {weight}})

\* _calculate_phrase_weight as the interpreter computes it
FloatPhraseWeight(phrase) ==
    FloatTimes(FloatTimes(FloatTimes(FloatTimes(FloatTimes(
        FloatOfInt(BaseWeight(Len(split(phrase)))),
        HasCompoundToken(phrase), 13),
        HasCapitalizedWord(phrase), 12),
        AvgWordLengthOver(split(phrase), 6), 11),
        HasBuzzword(phrase), 9),
        HasStandaloneNumber(phrase), 11)

---------------------------------------------------------------------------
(* Applications, configuration, license registry *)

\* the literal of is_app_nonfree: the bytes of the marker symbol decoded as
\* three Latin characters, written here in ASCII
ProprietaryMarker == "aS~ Proprietary"

\* the marker of the license data, U+2298 and " Proprietary", written here
\* in ASCII
ProprietarySymbol == "(/) Proprietary"

\* an Application object: the fields the finder reads
AppSync ==
    [id |-> "sync", name |-> "Zed Sync",
     description |-> Some("Self-hosted file synchronization server with encrypted backup storage"),
     categories |-> <<"File Sync", "Backup">>, license |-> <<"MIT">>,
     platforms |-> <<"Go", "Docker">>, stars |-> Some(12000),
     depends_3rdparty |-> TRUE, fork_of |-> None,
     alternative_to |-> <<"Dropbox">>]

AppDrop ==
    [id |-> "drop", name |-> "alpha drop",
     description |-> Some("File synchronization server with encrypted backup storage."),
     categories |-> <<"File Sync", "Photos">>, license |-> <<"GPL-3.0", "BUSL-1.1">>,
     platforms |-> <<"Docker">>, stars |-> Some(9000),
     depends_3rdparty |-> FALSE, fork_of |-> None,
     alternative_to |-> <<" dropbox ", "Google Drive">>]

AppMini ==
    [id |-> "mini", name |-> "Mini",
     description |-> None,
     categories |-> <<"Backup">>, license |-> <<>>,
     platforms |-> <<>>, stars |-> Some(0),
     depends_3rdparty |-> TRUE, fork_of |-> Some("Borg"),
     alternative_to |-> <<>>]

AppNano ==
    [id |-> "nano", name |-> "mini",
     description |-> Some(""),
     categories |-> <<"Backup">>, license |-> <<>>,
     platforms |-> <<>>, stars |-> None,
     depends_3rdparty |-> TRUE, fork_of |-> Some(" borg"),
     alternative_to |-> <<>>]

AppFork ==
    [id |-> "sync", name |-> "Sync Fork",
     description |-> Some("Minimal backup tool"),
     categories |-> <<"Backup">>, license |-> <<ProprietaryMarker>>,
     platforms |-> <<"Go">>, stars |-> Some(0),
     depends_3rdparty |-> TRUE, fork_of |-> None,
     alternative_to |-> <<>>]

AppVault ==
    [id |-> "vault", name |-> "Vault",
     description |-> Some("Encrypted backup storage for photos"),
     categories |-> <<"Backup", "Photos">>, license |-> <<>>,
     platforms |-> <<>>, stars |-> Some(9500),
     depends_3rdparty |-> FALSE, fork_of |-> None,
     alternative_to |-> <<"Google Drive">>]


\* the applications the callers put into candidate lists, and the targets
ListApps == {AppSync, AppDrop, AppMini, AppNano, AppFork}
AppPool == ListApps \cup {AppVault}


\* pairs of descriptions whose semantic similarity is computed on its own
SemanticSamples == {
    <<"ui is git calendar alpha encrypted beta e-mail",
      "e-mail gamma encrypted delta calendar omega ui is git">>,
    <<"git api cli sdk", "git api cli sdk">>,
    <<"encrypted e-mail", "">>,
    <<"encrypted e-mail", "calendar">>,
    <<"e-mail relay", "e-mail gateway">>,
    <<"e-mail one x-ray", "x-ray two e-mail">> }

\* pairs of descriptions: those of SemanticSamples, and one whose two
\* phrase sets have the same size
PairSamples ==
    SemanticSamples \cup
    {<<"ui is git calendar alpha encrypted beta e-mail is zeta",
       "e-mail gamma encrypted delta calendar omega ui is git">>}

\* TLC evaluates a constant definition once: the phrase sets and the phrase
\* weights of the descriptions in use, computed by the operators above
PhraseTable ==
    [d \in {app.description : app \in AppPool}
            \cup {Some(pair[i]) : pair \in PairSamples, i \in 1..2} |->
        _extract_significant_phrases(d)]

WeightTable ==
    [p \in UNION {PhraseTable[d] : d \in DOMAIN PhraseTable} |->
        _calculate_phrase_weight(p)]

ExtractedPhrases(description) ==
    IF description \in DOMAIN PhraseTable THEN PhraseTable[description]
    ELSE _extract_significant_phrases(description)

PhraseWeight(phrase) ==
    IF phrase \in DOMAIN WeightTable THEN WeightTable[phrase]
    ELSE _calculate_phrase_weight(phrase)

\* the float weights of their phrases
FloatWeightTable ==
    [p \in UNION {_extract_significant_phrases(Some(pair[1]))
                      \cap _extract_significant_phrases(Some(pair[2])) :
                  pair \in SemanticSamples} |->
        FloatPhraseWeight(p)]

FloatWeight(phrase) ==
    IF phrase \in DOMAIN FloatWeightTable THEN FloatWeightTable[phrase]
    ELSE FloatPhraseWeight(phrase)

EmptyDict == [k \in {} |-> 0]

\* truthiness of a list, of an Optional[str] and of an Optional[int]
TruthyStr(o) == o # None /\ Val(o) # ""
TruthyInt(o) == o # None /\ Val(o) # 0

\* a popularity guard that looks at the candidate only
StarsGuardCandidateOnly(target_app, app) == TruthyInt(app.stars)

\* if app.stars and target_app.stars:
StarsGuard(target_app, app) ==
    TruthyInt(app.stars) /\ TruthyInt(target_app.stars)

\* the fork_of conditions in front of fork_of.lower()
ForkGuard(target_app, app) ==
    TruthyStr(target_app.fork_of) /\ TruthyStr(app.fork_of)

\* if app.license and target_app.license:
LicenseGuard(target_app, app) ==
    app.license # <<>> /\ target_app.license # <<>>

\* the alternative_to conditions in front of the two set comprehensions
AlternativesGuard(target_app, app) ==
    target_app.alternative_to # <<>> /\ app.alternative_to # <<>>

is_app_nonfree(app, licenses_data) ==
    IF app.license = <<>> THEN FALSE
    ELSE IF licenses_data # None /\ DOMAIN Val(licenses_data) # {}
    THEN LET nonfree_licenses ==
                 {lic_id \in DOMAIN Val(licenses_data) :
                     ~Get(Val(licenses_data)[lic_id], "free", TRUE)}
         IN  \E i \in 1..Len(app.license) : app.license[i] \in nonfree_licenses
    ELSE \E i \in 1..Len(app.license) : app.license[i] = ProprietaryMarker

\* tiers whose lower bounds are exclusive
TierStrictBounds(stars) ==
    IF stars > 10000 THEN "mega"
    ELSE IF stars > 5000 THEN "highly"
    ELSE IF stars > 1000 THEN "popular"
    ELSE IF stars > 100 THEN "moderate"
    ELSE "emerging"

get_popularity_tier(stars) ==
    IF stars >= 10000 THEN "mega"
    ELSE IF stars >= 5000 THEN "highly"
    ELSE IF stars >= 1000 THEN "popular"
    ELSE IF stars >= 100 THEN "moderate"
    ELSE "emerging"

\* the alternatives compared as they are written
AltSetVerbatim(app) ==
    {app.alternative_to[i] : i \in 1..Len(app.alternative_to)}

\* alt.lower().strip() for alt in app.alternative_to
AltSet(app) ==
    {strip(lower(app.alternative_to[i])) : i \in 1..Len(app.alternative_to)}

_calculate_alternative_similarity(target_app, app, scoring_config) ==
    LET alt_config == Get(scoring_config, "alternatives", EmptyDict) IN
    IF ~Get(alt_config, "enabled", TRUE) THEN 0
    ELSE IF AlternativesGuard(target_app, app)
    THEN Cardinality(AltSet(target_app) \cap AltSet(app))
             * Get(alt_config, "points_per_match", 6)
    ELSE 0

_calculate_fork_similarity(target_app, app, scoring_config) ==
    LET fork_config == Get(scoring_config, "forks", EmptyDict) IN
    IF ~Get(fork_config, "enabled", TRUE) THEN 0
    ELSE IF /\ ForkGuard(target_app, app)
            /\ strip(lower(Val(target_app.fork_of))) = strip(lower(Val(app.fork_of)))
    THEN Get(fork_config, "same_parent_score", 8)
    ELSE 0

---------------------------------------------------------------------------
(* Semantic similarity over the precomputed phrase map *)

\* dict of app.id -> phrase set; a later app with the same id overwrites
_precompute_app_phrases(applications) ==
    [id \in {applications[i].id : i \in 1..Len(applications)} |->
        LET last == CHOOSE i \in 1..Len(applications) :
                        /\ applications[i].id = id
                        /\ \A j \in (i + 1)..Len(applications) : applications[j].id # id
            app == applications[last]
        IN  IF app.description # None /\ Val(app.description) # ""
            THEN ExtractedPhrases(app.description)
            ELSE {}]

RECURSIVE SumWeights(_)
SumWeights(phrases) ==
    IF phrases = {} THEN 0
    ELSE LET phrase == CHOOSE p \in phrases : TRUE
         IN  PhraseWeight(phrase) + SumWeights(phrases \ {phrase})

\* the cap of min(int(score), 25)
SemanticCap == 25

\* the weighted sum without the cap
SemanticUncapped(target_app, app, app_phrases) ==
    LET target_phrases == Get(app_phrases, target_app.id, {})
        app_phrases_set == Get(app_phrases, app.id, {})
        common_phrases == target_phrases \cap app_phrases_set
    IN  IF target_phrases = {} \/ app_phrases_set = {} THEN 0
        ELSE IF common_phrases = {} THEN 0
        ELSE SumWeights(common_phrases) \div WeightScale

_calculate_semantic_similarity(target_app, app, app_phrases) ==
    LET target_phrases == Get(app_phrases, target_app.id, {})
        app_phrases_set == Get(app_phrases, app.id, {})
        common_phrases == target_phrases \cap app_phrases_set
    IN  IF target_phrases = {} \/ app_phrases_set = {} THEN 0
        ELSE IF common_phrases = {} THEN 0
        ELSE Min(SumWeights(common_phrases) \div WeightScale, SemanticCap)

\* the orders in which `for phrase in common_phrases` can visit a set of
\* str: the order follows the hashes, which change with PYTHONHASHSEED
RECURSIVE Orders(_)
Orders(S) ==
    IF S = {} THEN {<<>>}
    ELSE UNION {{<<p>> \o order : order \in Orders(S \ {p})} : p \in S}

\* score += phrase_weight for the phrases from the i-th on
RECURSIVE SumInOrder(_, _, _)
SumInOrder(order, i, score) ==
    IF i > Len(order) THEN score
    ELSE TheOne({SumInOrder(order, i + 1, next) :
                    next \in {FloatAdd(score, FloatWeight(order[i]))}})

\* _calculate_semantic_similarity in float arithmetic, the loop visiting
\* common_phrases in the given order
SemanticInOrder(target_app, app, app_phrases, order) ==
    LET target_phrases == Get(app_phrases, target_app.id, {})
        app_phrases_set == Get(app_phrases, app.id, {})
        common_phrases == target_phrases \cap app_phrases_set
    IN  IF target_phrases = {} \/ app_phrases_set = {} THEN 0
        ELSE IF common_phrases = {} THEN 0
        ELSE Min(FloatTrunc(SumInOrder(order, 1, FloatOfInt(0))), SemanticCap)

\* the phrases the loop of one pair visits
CommonPhrases(target_app, app, app_phrases) ==
    Get(app_phrases, target_app.id, {}) \cap Get(app_phrases, app.id, {})

---------------------------------------------------------------------------
(* Scoring of one candidate, ranking and truncation *)

\* set(app.categories or []) & set(target_app.categories or [])
Common(list1, list2) == Range(list1) \cap Range(list2)

\* the eight contributions of the loop body; a signal that is disabled or
\* not applicable contributes 0
ScoreBreakdown(target_app, app, app_phrases, config, licenses_data) ==
    LET scoring_config == Get(config, "scoring", EmptyDict)
        Section(name) == Get(scoring_config, name, EmptyDict)
        Enabled(name) == Get(Section(name), "enabled", TRUE)
    IN  [semantic |->
            IF Enabled("semantic_similarity")
            THEN _calculate_semantic_similarity(target_app, app, app_phrases)
            ELSE 0,
         categories |->
            IF Enabled("categories")
            THEN Cardinality(Common(app.categories, target_app.categories))
                     * Get(Section("categories"), "points_per_match", 4)
            ELSE 0,
         alternatives |->
            IF Enabled("alternatives")
            THEN _calculate_alternative_similarity(target_app, app, scoring_config)
            ELSE 0,
         forks |->
            IF Enabled("forks")
            THEN _calculate_fork_similarity(target_app, app, scoring_config)
            ELSE 0,
         platforms |->
            IF Enabled("platforms")
            THEN Cardinality(Common(app.platforms, target_app.platforms))
                     * Get(Section("platforms"), "points_per_match", 2)
            ELSE 0,
         license |->
            IF /\ Enabled("license")
               /\ LicenseGuard(target_app, app)
               /\ is_app_nonfree(target_app, licenses_data)
                      = is_app_nonfree(app, licenses_data)
            THEN Get(Section("license"), "same_type_score", 2)
            ELSE 0,
         popularity |->
            IF /\ Enabled("popularity")
               /\ StarsGuard(target_app, app)
               /\ get_popularity_tier(Val(target_app.stars))
                      = get_popularity_tier(Val(app.stars))
            THEN Get(Section("popularity"), "same_tier_score", 1)
            ELSE 0,
         dependencies |->
            IF /\ Enabled("dependencies")
               /\ app.depends_3rdparty = target_app.depends_3rdparty
            THEN Get(Section("dependencies"), "same_status_score", 1)
            ELSE 0]

\* a total that leaves the eighth signal out
TotalWithoutDependencies(b) ==
    b.semantic + b.categories + b.alternatives + b.forks
        + b.platforms + b.license + b.popularity

TotalScore(b) ==
    b.semantic + b.categories + b.alternatives + b.forks
        + b.platforms + b.license + b.popularity + b.dependencies

\* the item appended to `related` for one candidate; pos is the candidate's
\* index in all_applications
Item(app, breakdown, pos) ==
    [app |-> app, score |-> TotalScore(breakdown),
     breakdown |-> breakdown, pos |-> pos]

\* a threshold that also drops a score equal to min_score
AboveThresholdStrict(item, config) ==
    IF item.score > Get(config, "min_score", 3) THEN <<item>> ELSE <<>>

\* if score >= min_score: related.append(...)
AboveThreshold(item, config) ==
    IF item.score >= Get(config, "min_score", 3) THEN <<item>> ELSE <<>>

\* a loop body that skips the target object only, not every application
\* with the target's id
LoopBodyByObject(target_app, app, app_phrases, config, licenses_data, pos) ==
    IF app = target_app THEN <<>>
    ELSE AboveThreshold(
             Item(app,
                  ScoreBreakdown(target_app, app, app_phrases, config, licenses_data),
                  pos),
             config)

\* one iteration of the loop over all_applications
LoopBody(target_app, app, app_phrases, config, licenses_data, pos) ==
    IF app.id = target_app.id THEN <<>>
    ELSE AboveThreshold(
             Item(app,
                  ScoreBreakdown(target_app, app, app_phrases, config, licenses_data),
                  pos),
             config)

RECURSIVE ScoreCandidates(_, _, _, _, _, _)
ScoreCandidates(target_app, all_applications, app_phrases, config, licenses_data, pos) ==
    IF pos > Len(all_applications) THEN <<>>
    ELSE LoopBody(target_app, all_applications[pos], app_phrases,
                  config, licenses_data, pos)
         \o ScoreCandidates(target_app, all_applications, app_phrases,
                            config, licenses_data, pos + 1)

\* components of a sort key: Python ints and strs
IntKey(n) == [t |-> "int", v |-> n]
StrKey(str) == [t |-> "str", v |-> str]

\* tiebreaker keys that compare names as written, without lower()
RECURSIVE TiebreakerKeysRawName(_, _)
TiebreakerKeysRawName(app, tiebreakers) ==
    IF tiebreakers = <<>> THEN <<>>
    ELSE LET tiebreaker == Head(tiebreakers)
             rest == TiebreakerKeysRawName(app, Tail(tiebreakers))
         IN  IF tiebreaker = "stars"
             THEN <<IntKey(-(IF TruthyInt(app.stars) THEN Val(app.stars) ELSE 0))>>
                      \o rest
             ELSE IF tiebreaker = "name"
             THEN <<StrKey(app.name)>> \o rest
             ELSE rest

\* tiebreaker keys that read a name they do not know as "name"
RECURSIVE TiebreakerKeysUnknownAsName(_, _)
TiebreakerKeysUnknownAsName(app, tiebreakers) ==
    IF tiebreakers = <<>> THEN <<>>
    ELSE LET tiebreaker == Head(tiebreakers)
             rest == TiebreakerKeysUnknownAsName(app, Tail(tiebreakers))
         IN  IF tiebreaker = "stars"
             THEN <<IntKey(-(IF TruthyInt(app.stars) THEN Val(app.stars) ELSE 0))>>
                      \o rest
             ELSE <<StrKey(lower(app.name))>> \o rest

RECURSIVE TiebreakerKeys(_, _)
TiebreakerKeys(app, tiebreakers) ==
    IF tiebreakers = <<>> THEN <<>>
    ELSE LET tiebreaker == Head(tiebreakers)
             rest == TiebreakerKeys(app, Tail(tiebreakers))
         IN  IF tiebreaker = "stars"
             THEN <<IntKey(-(IF TruthyInt(app.stars) THEN Val(app.stars) ELSE 0))>>
                      \o rest
             ELSE IF tiebreaker = "name"
             THEN <<StrKey(lower(app.name))>> \o rest
             ELSE rest

sort_key(item, tiebreakers) ==
    <<IntKey(-item.score)>> \o TiebreakerKeys(item.app, tiebreakers)

\* tuple comparison k1 < k2
RECURSIVE KeyLess(_, _)
KeyLess(k1, k2) ==
    IF k2 = <<>> THEN FALSE
    ELSE IF k1 = <<>> THEN TRUE
    ELSE IF Head(k1) = Head(k2) THEN KeyLess(Tail(k1), Tail(k2))
    ELSE IF Head(k1).t = "int" THEN Head(k1).v < Head(k2).v
    ELSE StrLess(Head(k1).v, Head(k2).v)

\* an unstable insertion: an item goes in front of the items with its key
RECURSIVE InsertBeforeEqual(_, _, _)
InsertBeforeEqual(sorted, item, tiebreakers) ==
    IF sorted = <<>> THEN <<item>>
    ELSE IF ~KeyLess(sort_key(Head(sorted), tiebreakers), sort_key(item, tiebreakers))
         THEN <<item>> \o sorted
         ELSE <<Head(sorted)>> \o InsertBeforeEqual(Tail(sorted), item, tiebreakers)

\* list.sort(key=sort_key) is stable: an item goes behind every item whose
\* key is not greater than its own
RECURSIVE InsertByKey(_, _, _)
InsertByKey(sorted, item, tiebreakers) ==
    IF sorted = <<>> THEN <<item>>
    ELSE IF KeyLess(sort_key(item, tiebreakers), sort_key(Head(sorted), tiebreakers))
         THEN <<item>> \o sorted
         ELSE <<Head(sorted)>> \o InsertByKey(Tail(sorted), item, tiebreakers)

RECURSIVE SortRelated(_, _)
SortRelated(related, tiebreakers) ==
    IF related = <<>> THEN <<>>
    ELSE InsertByKey(SortRelated(SubSeq(related, 1, Len(related) - 1), tiebreakers),
                     related[Len(related)], tiebreakers)

\* related[:max_results]
SlicePrefix(seq, n) ==
    IF n >= 0 THEN SubSeq(seq, 1, Min(n, Len(seq)))
    ELSE IF Len(seq) + n > 0 THEN SubSeq(seq, 1, Len(seq) + n)
    ELSE <<>>

\* lines 56..172 of find_related_apps: the ranked, truncated items
RankedItems(target_app, all_applications, app_phrases, config, licenses_data) ==
    SlicePrefix(
        SortRelated(
            ScoreCandidates(target_app, all_applications, app_phrases,
                            config, licenses_data, 1),
            Get(config, "tiebreakers", <<"stars", "name">>)),
        Get(config, "max_results", 6))

---------------------------------------------------------------------------
(* Exceptions: the operations of find_related_apps that raise a TypeError or
   an AttributeError, and the guards the code puts in front of them *)

\* a Python int as opposed to a str; the configurations of the model hold
\* no float and no bool where a number is read
IsInt(v) ==
    SubSeq(ToString(v), 1, 1) \in
        {"0", "1", "2", "3", "4", "5", "6", "7", "8", "9", "-"}

\* app.stars or 0
StarsOrDefault(stars) == IF TruthyInt(stars) THEN stars ELSE Some(0)

\* the signals of one iteration whose operand is None behind the guard:
\* get_popularity_tier(None) compares None >= 10000, None.lower() has no
\* such attribute
FieldErrors(target_app, app, config) ==
    LET scoring_config == Get(config, "scoring", EmptyDict)
        Enabled(name) ==
            Get(Get(scoring_config, name, EmptyDict), "enabled", TRUE)
    IN  {name \in {"forks", "popularity"} :
            /\ Enabled(name)
            /\ IF name = "forks"
               THEN /\ ForkGuard(target_app, app)
                    /\ target_app.fork_of = None \/ app.fork_of = None
               ELSE /\ StarsGuard(target_app, app)
                    /\ target_app.stars = None \/ app.stars = None}

\* the signals of one iteration whose configured number is not a number:
\* score += worth raises for int + str; categories and platforms read their
\* points for every candidate, the other signals only once their condition
\* holds
ConfigErrors(target_app, app, config, licenses_data) ==
    LET scoring_config == Get(config, "scoring", EmptyDict)
        Section(name) == Get(scoring_config, name, EmptyDict)
        Enabled(name) == Get(Section(name), "enabled", TRUE)
        Bad(name, key, default) ==
            Enabled(name) /\ ~IsInt(Get(Section(name), key, default))
    IN  {name \in {"categories", "alternatives", "forks", "platforms",
                   "license", "popularity", "dependencies"} :
            IF name = "categories" THEN Bad(name, "points_per_match", 4)
            ELSE IF name = "alternatives"
            THEN /\ Bad(name, "points_per_match", 6)
                 /\ AlternativesGuard(target_app, app)
            ELSE IF name = "forks"
            THEN /\ Bad(name, "same_parent_score", 8)
                 /\ ForkGuard(target_app, app)
                 /\ strip(lower(Val(target_app.fork_of)))
                        = strip(lower(Val(app.fork_of)))
            ELSE IF name = "platforms" THEN Bad(name, "points_per_match", 2)
            ELSE IF name = "license"
            THEN /\ Bad(name, "same_type_score", 2)
                 /\ LicenseGuard(target_app, app)
                 /\ is_app_nonfree(target_app, licenses_data)
                        = is_app_nonfree(app, licenses_data)
            ELSE IF name = "popularity"
            THEN /\ Bad(name, "same_tier_score", 1)
                 /\ StarsGuard(target_app, app)
                 /\ get_popularity_tier(Val(target_app.stars))
                        = get_popularity_tier(Val(app.stars))
            ELSE /\ Bad(name, "same_status_score", 1)
                 /\ app.depends_3rdparty = target_app.depends_3rdparty}

\* one iteration of the loop raises: a signal does, or score >= min_score
\* compares an int with a str
IterationRaises(target_app, app, config, licenses_data) ==
    /\ app.id # target_app.id
    /\ \/ FieldErrors(target_app, app, config) # {}
       \/ ConfigErrors(target_app, app, config, licenses_data) # {}
       \/ ~IsInt(Get(config, "min_score", 3))

\* sort_key negates `app.stars or 0` of every item when "stars" is a
\* tiebreaker; the items are those of the iterations, all of which returned
SortRaises(related, tiebreakers) ==
    /\ \E t \in 1..Len(tiebreakers) : tiebreakers[t] = "stars"
    /\ \E items \in {related} :
           \E i \in 1..Len(items) : StarsOrDefault(items[i].app.stars) = None

\* related[:max_results] wants an int
SliceRaises(config) == ~IsInt(Get(config, "max_results", 6))

\* lines 56..172 raise
FindRaises(target_app, all_applications, app_phrases, config, licenses_data) ==
    \/ \E pos \in 1..Len(all_applications) :
           IterationRaises(target_app, all_applications[pos], config, licenses_data)
    \/ SortRaises(ScoreCandidates(target_app, all_applications, app_phrases,
                                  config, licenses_data, 1),
                  Get(config, "tiebreakers", <<"stars", "name">>))
    \/ SliceRaises(config)

---------------------------------------------------------------------------
(* The finder, the caller's list objects, and the inputs of the model *)

VARIABLES
    config,                \* self.config
    licenses_data,         \* self.licenses_data
    _cached_app_phrases,   \* None or Some(dict id -> phrase set)
    _cached_app_list_id,   \* None or Some(id() of a list)
    heap,                  \* address -> None (free) or Some(list of apps)
    cached_list_alive,     \* the list object that filled the cache still lives
    last_call_list,        \* list object of the previous find_related_apps call
                           \* (None: no such call, freed, or clear_cache since)
    call,                  \* the last operation and what it returned
    frames                 \* caller thread -> the frame of its unfinished
                           \* find_related_apps call (locals and position)

vars == <<config, licenses_data, _cached_app_phrases, _cached_app_list_id,
          heap, cached_list_alive, last_call_list, call, frames>>

\* longest candidate list the callers build
MaxListLen == 3

\* addresses a list object can be allocated at: id(list)
NumAddr == 2
Addr == 1..NumAddr

\* lists of distinct application objects of the pool
RECURSIVE ListsOfLen(_)
ListsOfLen(n) ==
    IF n = 0 THEN {<<>>}
    ELSE {Append(l, app) : l \in ListsOfLen(n - 1), app \in ListApps} \cap
         {l \in [1..n -> ListApps] : \A i, j \in 1..n : i < j => l[i] # l[j]}

ListPool == UNION {ListsOfLen(n) : n \in 0..MaxListLen}

LicenseRegistry ==
    [lic \in {"MIT", "GPL-3.0", "BUSL-1.1"} |->
        IF lic = "BUSL-1.1" THEN [name |-> lic, free |-> FALSE]
        ELSE [name |-> lic, free |-> TRUE]]

\* configurations of the ranking runs: <<config, licenses_data>>
RankSetups == {
    <<EmptyDict, None>>,
    <<EmptyDict, Some(LicenseRegistry)>>,
    <<[max_results |-> 1], None>>,
    <<[max_results |-> -1, min_score |-> 1], None>>,
    <<[max_results |-> 2, tiebreakers |-> <<"name", "stars">>], None>>,
    <<[tiebreakers |-> <<"date", "stars">>, min_score |-> 4, max_results |-> 2],
      None>>,
    <<[tiebreakers |-> <<>>, min_score |-> 0, max_results |-> 0], None>>,
    <<[tiebreakers |-> <<"name", "added">>, min_score |-> 8,
       scoring |-> [semantic_similarity |-> [enabled |-> FALSE],
                    forks |-> [same_parent_score |-> 5]]], None>>,
    <<[scoring |-> [popularity |-> [enabled |-> FALSE],
                    categories |-> [points_per_match |-> 3]]], None>>,
    <<[min_score |-> 5,
       scoring |-> [popularity |-> [same_tier_score |-> 3],
                    license |-> [enabled |-> FALSE],
                    dependencies |-> [enabled |-> FALSE]]],
      Some(LicenseRegistry)>> }

\* configurations and lists of the cache runs
CacheSetups == {
    <<EmptyDict, None>>,
    <<[scoring |-> [semantic_similarity |-> [enabled |-> FALSE]]], None>> }

CacheLists == {
    <<AppSync, AppDrop, AppVault>>,
    <<AppSync, AppDrop>>,
    <<AppFork, AppVault>> }

CacheTargets == {AppSync, AppVault}

\* a finder that takes the semantic branch whatever the configuration says
SemanticAlwaysEnabled(cfg) == TRUE

SemanticEnabled(cfg) ==
    Get(Get(Get(cfg, "scoring", EmptyDict), "semantic_similarity", EmptyDict),
        "enabled", TRUE)

\* the threads that call one finder, and the frame of a thread that is not
\* inside find_related_apps
Threads == {"A", "B"}
Idle == [pc |-> "idle"]
NoFrames == [t \in Threads |-> Idle]

InitFinder(setup) ==
    /\ config = setup[1]
    /\ licenses_data = setup[2]
    /\ _cached_app_phrases = None
    /\ _cached_app_list_id = None
    /\ cached_list_alive = FALSE
    /\ last_call_list = None
    /\ call = [op |-> "init"]
    /\ frames = NoFrames

Init ==
    /\ \E setup \in CacheSetups : InitFinder(setup)
    /\ heap = [a \in Addr |-> None]

InitRank ==
    /\ \E setup \in RankSetups : InitFinder(setup)
    /\ \E l \in ListPool : heap = [a \in Addr |-> IF a = 1 THEN Some(l) ELSE None]

\* the caller builds a list; the allocator may place it at any free address
NewList(a, l) ==
    /\ heap[a] = None
    /\ heap' = [heap EXCEPT ![a] = Some(l)]
    /\ call' = [op |-> "new", list_id |-> a]
    /\ UNCHANGED <<config, licenses_data, _cached_app_phrases,
                   _cached_app_list_id, cached_list_alive, last_call_list,
                   frames>>

\* the caller drops its last reference: the list is freed, the finder keeps
\* only the integer id
DropList(a) ==
    /\ heap[a] # None
    /\ heap' = [heap EXCEPT ![a] = None]
    /\ cached_list_alive' =
           (cached_list_alive /\ _cached_app_list_id # Some(a))
    /\ last_call_list' =
           (IF last_call_list = Some(a) THEN None ELSE last_call_list)
    /\ call' = [op |-> "drop", list_id |-> a]
    /\ UNCHANGED <<config, licenses_data, _cached_app_phrases,
                   _cached_app_list_id, frames>>

\* a clear_cache that forgets the phrases and keeps the list id
ClearPhrasesOnly ==
    /\ _cached_app_phrases' = None
    /\ cached_list_alive' = FALSE
    /\ last_call_list' = None
    /\ call' = [op |-> "clear"]
    /\ UNCHANGED <<config, licenses_data, _cached_app_list_id, heap, frames>>

clear_cache ==
    /\ _cached_app_phrases' = None
    /\ _cached_app_list_id' = None
    /\ cached_list_alive' = FALSE
    /\ last_call_list' = None
    /\ call' = [op |-> "clear"]
    /\ UNCHANGED <<config, licenses_data, heap, frames>>

\* what the call leaves behind: the cache fields, and the returned list or
\* the exception; the cache is written in lines 51..52, before the loop
FindEffects(target_app, a, all_applications, semantic, compute, app_phrases, raised, ranked) ==
    /\ _cached_app_phrases' = IF compute THEN app_phrases ELSE _cached_app_phrases
    /\ _cached_app_list_id' = IF compute THEN Some(a) ELSE _cached_app_list_id
    /\ cached_list_alive' = IF compute THEN TRUE ELSE cached_list_alive
    /\ last_call_list' = Some(a)
    /\ call' = [op |-> "find", target_app |-> target_app, list_id |-> a,
                all_applications |-> all_applications,
                semantic |-> semantic, computed |-> compute,
                app_phrases |-> app_phrases,
                raised |-> raised,
                ranked |-> ranked,
                result |-> [i \in 1..Len(ranked) |-> ranked[i].app]]

\* lines 56..172 with the phrase map chosen in lines 44..54
FindWithPhrases(target_app, a, all_applications, semantic, compute, app_phrases) ==
    \E map \in {app_phrases} :
        \E phrases \in {IF semantic THEN Val(map) ELSE EmptyDict} :
            \E raised \in {FindRaises(target_app, all_applications, phrases,
                                      config, licenses_data)} :
                \E ranked \in {IF raised THEN <<>>
                                ELSE RankedItems(target_app, all_applications,
                                                 phrases, config,
                                                 licenses_data)} :
                    FindEffects(target_app, a, all_applications, semantic,
                                compute, map, raised, ranked)

\* lines 44..54: app_phrases is None, freshly computed, or the cached map
FindWithCache(target_app, a, all_applications, semantic, compute) ==
    FindWithPhrases(target_app, a, all_applications, semantic, compute,
                    IF ~semantic THEN None
                    ELSE IF compute
                    THEN Some(_precompute_app_phrases(all_applications))
                    ELSE _cached_app_phrases)

\* the condition of line 49, with current_list_id = id(all_applications) = a
CacheMiss(a) ==
    _cached_app_phrases = None \/ _cached_app_list_id # Some(a)

find_related_apps(target_app, a) ==
    /\ heap[a] # None
    /\ FindWithCache(target_app, a, Val(heap[a]), SemanticEnabled(config),
                     SemanticEnabled(config) /\ CacheMiss(a))
    /\ UNCHANGED <<config, licenses_data, heap, frames>>

Next ==
    \/ \E a \in Addr, l \in CacheLists : NewList(a, l)
    \/ \E a \in Addr : DropList(a)
    \/ clear_cache
    \/ \E target_app \in CacheTargets, a \in Addr : find_related_apps(target_app, a)

NextRank ==
    \E target_app \in AppPool : find_related_apps(target_app, 1)

Spec == Init /\ [][Next]_vars

SpecRank == InitRank /\ [][NextRank]_vars

---------------------------------------------------------------------------
(* One list object that its owner keeps and modifies between the calls *)

\* the contents the owner gives its list: an application removed, added or
\* replaced, and AppSync's description changed (AppFork has AppSync's id)
ModifyLists == CacheLists \cup {<<AppFork, AppDrop>>}

\* list.append, list.remove, list[i] = app, app.description = text: the
\* object and its id() stay, the contents change
ModifyList(a, l) ==
    /\ heap[a] # None
    /\ Val(heap[a]) # l
    /\ heap' = [heap EXCEPT ![a] = Some(l)]
    /\ call' = [op |-> "modify", list_id |-> a]
    /\ UNCHANGED <<config, licenses_data, _cached_app_phrases,
                   _cached_app_list_id, cached_list_alive, last_call_list,
                   frames>>

\* no list is freed: every id() names one object for the whole run
NextModify ==
    \/ \E a \in Addr, l \in CacheLists : NewList(a, l)
    \/ \E a \in Addr, l \in ModifyLists : ModifyList(a, l)
    \/ clear_cache
    \/ \E target_app \in CacheTargets, a \in Addr : find_related_apps(target_app, a)

SpecModify == Init /\ [][NextModify]_vars

---------------------------------------------------------------------------
(* A finder whose configuration dict is changed by its owner between calls *)

\* self.config is the caller's dict (line 21), read anew on every call
\* (line 38): the owner switches semantic similarity on or off
SetSemanticEnabled(enabled) ==
    /\ SemanticEnabled(config) # enabled
    /\ config' = [scoring |-> [semantic_similarity |-> [enabled |-> enabled]]]
    /\ call' = [op |-> "configure", enabled |-> enabled]
    /\ UNCHANGED <<licenses_data, _cached_app_phrases, _cached_app_list_id,
                   heap, cached_list_alive, last_call_list, frames>>

NextReconfigured ==
    \/ \E a \in Addr, l \in CacheLists : NewList(a, l)
    \/ \E enabled \in BOOLEAN : SetSemanticEnabled(enabled)
    \/ clear_cache
    \/ \E target_app \in CacheTargets, a \in Addr : find_related_apps(target_app, a)

SpecReconfigured == Init /\ [][NextReconfigured]_vars

---------------------------------------------------------------------------
(* The finder's methods called one at a time *)

\* star counts around every tier boundary
StarSamples == {0, 1, 99, 100, 101, 999, 1000, 1001, 4999, 5000, 5001,
                9000, 9999, 10000, 10001, 12000}

\* an application that is nothing but a star count
StarApp(stars) ==
    [id |-> "stars", name |-> "Stars", description |-> None,
     categories |-> <<>>, license |-> <<>>, platforms |-> <<>>,
     stars |-> Some(stars), depends_3rdparty |-> FALSE,
     fork_of |-> None, alternative_to |-> <<>>]

\* license lists of up to two identifiers
LicenseSamples ==
    {"MIT", "BUSL-1.1", "busl-1.1", "Unlisted", ProprietaryMarker, ProprietarySymbol}

LicenseApps ==
    {[StarApp(0) EXCEPT !.id = "licensed", !.license = license] :
        license \in {<<>>} \cup {<<l>> : l \in LicenseSamples}
                        \cup {<<l1, l2>> : l1, l2 \in LicenseSamples}}

\* alternative_to lists of up to two entries that differ in case and in
\* surrounding blanks
AltSamples == {"Dropbox", " dropbox ", "DROPBOX", "Google Drive", "Drop box"}

AltApps ==
    {[StarApp(0) EXCEPT !.id = "alt", !.alternative_to = alts] :
        alts \in {<<>>} \cup {<<x>> : x \in AltSamples}
                     \cup {<<x, y>> : x, y \in AltSamples}}

\* the finder without a registry, with an empty one, and with one that
\* lists a non-free license
UnitSetups == {
    <<[min_score |-> 0], None>>,
    <<[min_score |-> 0], Some(EmptyDict)>>,
    <<[min_score |-> 0], Some(LicenseRegistry)>>,
    <<[scoring |-> [alternatives |-> [points_per_match |-> 5]]], None>>,
    <<[scoring |-> [alternatives |-> [enabled |-> FALSE]]], None>> }

\* the calls a caller is about to make
TierRequests ==
    {[op |-> "request", method |-> "get_popularity_tier", stars |-> stars] :
        stars \in StarSamples}

NonfreeRequests ==
    {[op |-> "request", method |-> "is_app_nonfree", app |-> app] :
        app \in LicenseApps}

AlternativeRequests ==
    {[op |-> "request", method |-> "_calculate_alternative_similarity",
      target_app |-> target_app, app |-> app] :
        target_app \in AltApps, app \in AltApps}

\* descriptions with one-word and two-word entries of generic_words, with
\* punctuation, underscores, capitals and runs of blanks, with a repeated
\* word, with fewer words than the longest window, and with a capital
\* that has no lowercase form
ExtractSamples ==
    {"Open source wiki", "Self hosted wiki engine", "Open-source wiki",
     "A simple and secure wiki", "Free self-hosted notes",
     "Smart_home hub, v2!", "  Wiki   engine  ", "wiki wiki wiki",
     "Go to an id db", "notes", "$loud Storage"}

\* the description of an Application is a str or None
ExtractRequests ==
    {[op |-> "request", method |-> "_extract_significant_phrases",
      description |-> description] :
        description \in {None, Some("")} \cup {Some(d) : d \in ExtractSamples}}

\* phrases of two to four words as the extraction loop forms them: with
\* no, some and only denylisted words, with a leading connector, with a
\* first word that merely begins like a connector, with short words only
PhraseSamples ==
    {"free wiki", "free simple", "wiki engine", "the wiki", "android app",
     "it works", "its wiki", "item list", "ui db", "ui kit",
     "open-source free wiki", "wiki and notes", "go to db", "such wiki notes",
     "fast and free wiki", "wiki and free notes", "wiki engine for notes",
     "go to db io", "using wiki for notes", "user wiki for notes"}

SignificantRequests ==
    {[op |-> "request", method |-> "_is_significant_phrase",
      phrase |-> phrase, length |-> Len(split(phrase))] :
        phrase \in PhraseSamples}

\* phrases of one to five words, with and without each of the features
\* _calculate_phrase_weight looks at, and the phrase without a word
WeightSamples ==
    {"wiki", "Wiki", "e-mail", "smart_home", "synchronization",
     "web server", "webserver", "port 8080", "v2 hub", "3-d models",
     "Nextcloud server 2", "high-performance", "a B", "encrypted backup",
     "file sync tool backup", "one two three four five", ""}

WeightRequests ==
    {[op |-> "request", method |-> "_calculate_phrase_weight",
      phrase |-> phrase] : phrase \in WeightSamples}

\* an application of which only the description matters
DescribedApp(id, description) ==
    [StarApp(0) EXCEPT !.id = id, !.name = id, !.description = Some(description)]

SemanticRequests ==
    {[op |-> "request", method |-> "_calculate_semantic_similarity",
      target_app |-> DescribedApp("t", pair[1]),
      app |-> DescribedApp("c", pair[2])] : pair \in SemanticSamples}

UnitRequests ==
    TierRequests \cup NonfreeRequests \cup AlternativeRequests
        \cup ExtractRequests \cup SemanticRequests \cup SignificantRequests
        \cup WeightRequests

InitUnit ==
    /\ \E setup \in UnitSetups :
          /\ config = setup[1]
          /\ licenses_data = setup[2]
    /\ _cached_app_phrases = None
    /\ _cached_app_list_id = None
    /\ cached_list_alive = FALSE
    /\ last_call_list = None
    /\ heap = [a \in Addr |-> None]
    /\ frames = NoFrames
    /\ \E request \in UnitRequests : call = request

Requested(method) == call.op = "request" /\ call.method = method

UnitUnchanged ==
    UNCHANGED <<config, licenses_data, _cached_app_phrases,
                _cached_app_list_id, heap, cached_list_alive, last_call_list,
                frames>>

\* a caller asks for the tier of a star count
Call_get_popularity_tier ==
    /\ Requested("get_popularity_tier")
    /\ call' = [op |-> "get_popularity_tier", stars |-> call.stars,
                result |-> get_popularity_tier(call.stars)]
    /\ UnitUnchanged

\* a caller asks whether an application is non-free (site_generator does)
Call_is_app_nonfree ==
    /\ Requested("is_app_nonfree")
    /\ call' = [op |-> "is_app_nonfree", app |-> call.app,
                result |-> is_app_nonfree(call.app, licenses_data)]
    /\ UnitUnchanged

\* the alternatives signal of one pair
Call_calculate_alternative_similarity ==
    /\ Requested("_calculate_alternative_similarity")
    /\ call' = [op |-> "_calculate_alternative_similarity",
                target_app |-> call.target_app, app |-> call.app,
                result |-> _calculate_alternative_similarity(
                               call.target_app, call.app,
                               Get(config, "scoring", EmptyDict))]
    /\ UnitUnchanged

\* the phrase set of one description
Call_extract_significant_phrases ==
    /\ Requested("_extract_significant_phrases")
    /\ call' = [op |-> "_extract_significant_phrases",
                description |-> call.description,
                text |-> IF call.description = None \/ Val(call.description) = ""
                         THEN None
                         ELSE Some(NormalizeText(Val(call.description))),
                result |-> _extract_significant_phrases(call.description)]
    /\ UnitUnchanged

\* the filter of one candidate phrase
Call_is_significant_phrase ==
    /\ Requested("_is_significant_phrase")
    /\ call' = [op |-> "_is_significant_phrase",
                phrase |-> call.phrase, length |-> call.length,
                result |-> _is_significant_phrase(call.phrase, call.length)]
    /\ UnitUnchanged

\* the weight of one phrase; sum(...) / len(words) raises ZeroDivisionError
\* for a phrase without a word
Call_calculate_phrase_weight ==
    /\ Requested("_calculate_phrase_weight")
    /\ call' = [op |-> "_calculate_phrase_weight", phrase |-> call.phrase,
                raised |-> Len(split(call.phrase)) = 0,
                result |-> IF Len(split(call.phrase)) = 0 THEN None
                           ELSE Some(FloatPhraseWeight(call.phrase))]
    /\ UnitUnchanged

\* the semantic signal of one pair over the phrase map of the two
Call_calculate_semantic_similarity(order) ==
    /\ Requested("_calculate_semantic_similarity")
    /\ LET app_phrases == _precompute_app_phrases(<<call.target_app, call.app>>)
       IN  /\ order \in Orders(CommonPhrases(call.target_app, call.app, app_phrases))
           /\ call' = [op |-> "_calculate_semantic_similarity",
                       target_app |-> call.target_app, app |-> call.app,
                       app_phrases |-> app_phrases,
                       order |-> order,
                       result |-> SemanticInOrder(call.target_app, call.app,
                                                  app_phrases, order)]
    /\ UnitUnchanged

NextUnit ==
    \/ Call_get_popularity_tier
    \/ Call_is_app_nonfree
    \/ Call_calculate_alternative_similarity
    \/ Call_extract_significant_phrases
    \/ Call_is_significant_phrase
    \/ Call_calculate_phrase_weight
    \/ \E order \in Orders(IF Requested("_calculate_semantic_similarity")
                            THEN CommonPhrases(call.target_app, call.app,
                                     _precompute_app_phrases(
                                         <<call.target_app, call.app>>))
                            ELSE {}) :
           Call_calculate_semantic_similarity(order)

SpecUnit == InitUnit /\ [][NextUnit]_vars

---------------------------------------------------------------------------
(* find_related_apps on a list of two applications, each taken as the target
   in turn; the floats of the semantic sum are added in the order in which
   the loop visits common_phrases *)

OrderedLists ==
    {<<DescribedApp("t", pair[1]), DescribedApp("c", pair[2])>> :
        pair \in PairSamples}

\* thresholds below, at and above the totals of the pairs
OrderedSetups ==
    {<<[min_score |-> min_score], None>> : min_score \in {0, 13, 14}}

InitOrdered ==
    /\ \E setup \in OrderedSetups : InitFinder(setup)
    /\ \E l \in OrderedLists :
           heap = [a \in Addr |-> IF a = 1 THEN Some(l) ELSE None]

\* the contributions of one candidate, the semantic one summed in the
\* given order
ScoreInOrder(target_app, app, app_phrases, order) ==
    [ScoreBreakdown(target_app, app, app_phrases, config, licenses_data)
        EXCEPT !.semantic =
            IF SemanticEnabled(config)
            THEN SemanticInOrder(target_app, app, app_phrases, order)
            ELSE 0]

\* lines 56..172 on a list of two applications
RankedInOrder(target_app, all_applications, app_phrases, order) ==
    LET Scored(pos) ==
            IF all_applications[pos].id = target_app.id THEN <<>>
            ELSE AboveThreshold(
                     Item(all_applications[pos],
                          ScoreInOrder(target_app, all_applications[pos],
                                       app_phrases, order),
                          pos),
                     config)
    IN  SlicePrefix(SortRelated(Scored(1) \o Scored(2),
                                Get(config, "tiebreakers", <<"stars", "name">>)),
                    Get(config, "max_results", 6))

\* find_related_apps(target_app, all_applications) for the list at address
\* a; the loop of _calculate_semantic_similarity visits the phrases common
\* to the target and the other application in the given order
FindInOrder(target_app, a, order) ==
    /\ heap[a] # None
    /\ \E all_applications \in {Val(heap[a])} :
       \E compute \in {SemanticEnabled(config) /\ CacheMiss(a)} :
       \E map \in {IF ~SemanticEnabled(config) THEN None
                    ELSE IF compute
                    THEN Some(_precompute_app_phrases(all_applications))
                    ELSE _cached_app_phrases} :
       \E phrases \in {IF map = None THEN EmptyDict ELSE Val(map)} :
           /\ order \in Orders(UNION {CommonPhrases(target_app, all_applications[pos], phrases) :
                                          pos \in {i \in 1..2 :
                                              all_applications[i].id # target_app.id}})
           /\ FindEffects(target_app, a, all_applications,
                          SemanticEnabled(config), compute, map, FALSE,
                          RankedInOrder(target_app, all_applications,
                                        phrases, order))
    /\ UNCHANGED <<config, licenses_data, heap, frames>>

\* every order of at most four phrases
PhraseOrders ==
    UNION {Orders(S) : S \in SUBSET {"calendar", "e-mail", "encrypted", "ui is git"}}
        \cup Orders({"e-mail", "x-ray"}) \cup Orders({"git api cli sdk"})

NextOrdered ==
    \/ \E i \in 1..2, order \in PhraseOrders :
           FindInOrder(Val(heap[1])[i], 1, order)
    \/ clear_cache

SpecOrdered == InitOrdered /\ [][NextOrdered]_vars

---------------------------------------------------------------------------
(* find_related_apps under configurations that switch single signals off *)

SignalNames == {"semantic_similarity", "categories", "alternatives", "forks",
                "platforms", "license", "popularity", "dependencies"}

\* config with the signals of `off` disabled; min_score 0 keeps every
\* candidate in the result
ConfigWithout(off) ==
    [min_score |-> 0, scoring |-> [name \in off |-> [enabled |-> FALSE]]]

\* nothing configured, one signal off at a time, two off, all off, and one
\* signal switched on explicitly
SignalSetups ==
    {<<[min_score |-> 0], None>>,
     <<ConfigWithout({"license", "popularity"}), Some(LicenseRegistry)>>,
     <<ConfigWithout(SignalNames), None>>,
     <<[min_score |-> 0, scoring |-> [forks |-> [enabled |-> TRUE]]], None>>}
    \cup {<<ConfigWithout({name}), None>> : name \in SignalNames}

PairLists == ListsOfLen(1) \cup ListsOfLen(2)

InitPair ==
    /\ \E setup \in SignalSetups : InitFinder(setup)
    /\ \E l \in PairLists : heap = [a \in Addr |-> IF a = 1 THEN Some(l) ELSE None]

SpecPair == InitPair /\ [][NextRank]_vars

---------------------------------------------------------------------------
(* find_related_apps on applications that lack optional fields *)

\* an application with every optional field filled in
AppFull ==
    [id |-> "full", name |-> "Full",
     description |-> AppSync.description,
     categories |-> <<"File Sync">>, license |-> <<"MIT">>,
     platforms |-> <<"Go">>, stars |-> Some(9000),
     depends_3rdparty |-> TRUE, fork_of |-> Some("Borg"),
     alternative_to |-> <<"Dropbox">>]

OptionalFields ==
    {"description", "license", "stars", "platforms", "categories",
     "alternative_to", "fork_of"}

\* the field as the Application object holds it when the caller passed
\* nothing (None; __post_init__ turns a None list into []) or passed an
\* empty value
FieldValue(field, kind) ==
    IF field \in {"description", "fork_of"}
    THEN (IF kind = "missing" THEN None ELSE Some(""))
    ELSE IF field = "stars"
    THEN (IF kind = "missing" THEN None ELSE Some(0))
    ELSE <<>>

Lacking(field, kind) ==
    [AppFull EXCEPT ![field] = FieldValue(field, kind),
                    !.id = field \o "-" \o kind,
                    !.name = field \o " " \o kind]

\* only the required fields
AppBare ==
    [id |-> "bare", name |-> "Bare",
     description |-> None,
     categories |-> <<>>, license |-> <<>>,
     platforms |-> <<>>, stars |-> None,
     depends_3rdparty |-> FALSE, fork_of |-> None,
     alternative_to |-> <<>>]

\* a list field that was not passed and one that was passed empty are the
\* same object state
FieldKinds(field) ==
    IF field \in {"description", "fork_of", "stars"}
    THEN {"missing", "empty"}
    ELSE {"empty"}

SparseApps ==
    {AppFull, AppBare} \cup
    UNION {{Lacking(field, kind) : kind \in FieldKinds(field)} :
              field \in OptionalFields}

SparseSetups == {
    <<[min_score |-> 0], None>>,
    <<[min_score |-> 0], Some(LicenseRegistry)>> }

InitSparse ==
    /\ \E setup \in SparseSetups : InitFinder(setup)
    /\ \E app1 \in SparseApps, app2 \in {AppFull, AppBare} :
          /\ app1 # app2
          /\ heap = [a \in Addr |-> IF a = 1 THEN Some(<<app1, app2>>) ELSE None]

NextSparse ==
    \E target_app \in SparseApps : find_related_apps(target_app, 1)

SpecSparse == InitSparse /\ [][NextSparse]_vars

---------------------------------------------------------------------------
(* find_related_apps on finders constructed with any configuration *)

\* __init__ stores the dict it is given: a str where a number is read is
\* accepted like any other value
InitConfig ==
    /\ \/ InitFinder(<<[scoring |-> [categories |-> [points_per_match |-> "high"]]],
                        None>>)
       \/ InitFinder(<<[scoring |-> [alternatives |-> [points_per_match |-> "high"]]],
                        None>>)
       \/ InitFinder(<<[scoring |-> [categories |-> [enabled |-> FALSE,
                                                     points_per_match |-> "high"]]],
                        None>>)
       \/ InitFinder(<<[min_score |-> "3"], None>>)
       \/ InitFinder(<<[max_results |-> "6"], None>>)
       \/ InitFinder(<<[min_score |-> 0,
                        scoring |-> [categories |-> [points_per_match |-> 5]]],
                        None>>)
    /\ \E l \in PairLists : heap = [a \in Addr |-> IF a = 1 THEN Some(l) ELSE None]

SpecConfig == InitConfig /\ [][NextRank]_vars

---------------------------------------------------------------------------
(* Two threads inside find_related_apps of one finder, without a lock: the
   statements of lines 44..54 one at a time, the loop and the sort as one *)

\* the two list objects the callers hold for the whole run, by address
ConcLists == << <<AppSync, AppDrop>>, <<AppSync, AppVault>> >>

InitConc ==
    /\ \E setup \in CacheSetups : InitFinder(setup)
    /\ heap = [a \in Addr |-> IF a <= Len(ConcLists) THEN Some(ConcLists[a])
                                ELSE None]

At(t, pc) == frames[t].pc = pc

Goto(t, pc) == frames' = [frames EXCEPT ![t].pc = pc]

ConcUnchanged ==
    UNCHANGED <<config, licenses_data, _cached_app_phrases,
                _cached_app_list_id, heap, cached_list_alive, last_call_list,
                call>>

\* lines 37..48: the locals are set up; with the signal off app_phrases
\* stays None and the loop is next
Enter(t, target_app, a) ==
    /\ At(t, "idle")
    /\ heap[a] # None
    /\ frames' = [frames EXCEPT ![t] =
                      [pc |-> IF SemanticEnabled(config) THEN "check_phrases"
                              ELSE "score",
                       target_app |-> target_app, list_id |-> a,
                       all_applications |-> Val(heap[a]),
                       app_phrases |-> None, computed |-> FALSE]]
    /\ ConcUnchanged

\* line 49, left operand: self._cached_app_phrases is None
CheckPhrases(t) ==
    /\ At(t, "check_phrases")
    /\ Goto(t, IF _cached_app_phrases = None THEN "compute" ELSE "check_id")
    /\ ConcUnchanged

\* line 49, right operand: self._cached_app_list_id != current_list_id
CheckId(t) ==
    /\ At(t, "check_id")
    /\ Goto(t, IF _cached_app_list_id # Some(frames[t].list_id) THEN "compute"
               ELSE "read")
    /\ ConcUnchanged

\* line 50: app_phrases = self._precompute_app_phrases(all_applications)
Compute(t) ==
    /\ At(t, "compute")
    /\ frames' = [frames EXCEPT
                      ![t].app_phrases =
                          Some(_precompute_app_phrases(frames[t].all_applications)),
                      ![t].computed = TRUE,
                      ![t].pc = "store_phrases"]
    /\ ConcUnchanged

\* line 51: self._cached_app_phrases = app_phrases
StorePhrases(t) ==
    /\ At(t, "store_phrases")
    /\ _cached_app_phrases' = frames[t].app_phrases
    /\ Goto(t, "store_id")
    /\ UNCHANGED <<config, licenses_data, _cached_app_list_id, heap,
                   cached_list_alive, last_call_list, call>>

\* line 52: self._cached_app_list_id = current_list_id
StoreId(t) ==
    /\ At(t, "store_id")
    /\ _cached_app_list_id' = Some(frames[t].list_id)
    /\ cached_list_alive' = TRUE
    /\ Goto(t, "score")
    /\ UNCHANGED <<config, licenses_data, _cached_app_phrases, heap,
                   last_call_list, call>>

\* line 54: app_phrases = self._cached_app_phrases
ReadCache(t) ==
    /\ At(t, "read")
    /\ frames' = [frames EXCEPT ![t].app_phrases = _cached_app_phrases,
                                ![t].pc = "score"]
    /\ ConcUnchanged

\* a loop that reads the shared attribute instead of the local
ScoringPhrasesShared(frame, cache) == cache

\* the map the loop of lines 56..146 scores with: the local app_phrases
ScoringPhrases(frame, cache) == frame.app_phrases

\* lines 56..172: the loop, the sort and the return
Score(t) ==
    /\ At(t, "score")
    /\ LET frame == frames[t]
           semantic == SemanticEnabled(config)
           app_phrases == ScoringPhrases(frame, _cached_app_phrases)
           phrases == IF semantic THEN Val(app_phrases) ELSE EmptyDict
           raised == FindRaises(frame.target_app, frame.all_applications,
                                phrases, config, licenses_data)
           ranked == IF raised THEN <<>>
                     ELSE RankedItems(frame.target_app, frame.all_applications,
                                      phrases, config, licenses_data)
       IN  call' = [op |-> "find", thread |-> t,
                    target_app |-> frame.target_app,
                    list_id |-> frame.list_id,
                    all_applications |-> frame.all_applications,
                    semantic |-> semantic, computed |-> frame.computed,
                    app_phrases |-> app_phrases,
                    raised |-> raised,
                    ranked |-> ranked,
                    result |-> [i \in 1..Len(ranked) |-> ranked[i].app]]
    /\ last_call_list' = Some(frames[t].list_id)
    /\ frames' = [frames EXCEPT ![t] = Idle]
    /\ UNCHANGED <<config, licenses_data, _cached_app_phrases,
                   _cached_app_list_id, heap, cached_list_alive>>

NextConc ==
    \E t \in Threads :
        \/ \E a \in Addr : Enter(t, AppSync, a)
        \/ CheckPhrases(t)
        \/ CheckId(t)
        \/ Compute(t)
        \/ StorePhrases(t)
        \/ StoreId(t)
        \/ ReadCache(t)
        \/ Score(t)

SpecConc == InitConc /\ [][NextConc]_vars

---------------------------------------------------------------------------
(* Properties of the result of find_related_apps *)

IsFind == call.op = "find"

\* the phrase map the last call scored with ({} when the signal is off)
CallPhrases == IF call.semantic THEN Val(call.app_phrases) ELSE EmptyDict

\* the contributions and the total of a candidate against the last target
CallBreakdown(app) ==
    ScoreBreakdown(call.target_app, app, CallPhrases, config, licenses_data)

CallScore(app) == TotalScore(CallBreakdown(app))

Candidates == Range(call.all_applications)
Returned == Range(call.result)

\* index of an application in the candidate list of the last call
PosOf(app) == CHOOSE pos \in 1..Len(call.all_applications) :
                  call.all_applications[pos] = app

MinScore == Get(config, "min_score", 3)
MaxResults == Get(config, "max_results", 6)
Tiebreakers == Get(config, "tiebreakers", <<"stars", "name">>)

\* C1: the sequence returned by find_related_apps contains no application
\* whose id equals the target's id.
C1_TargetNotReturned ==
    IsFind => \A i \in 1..Len(call.result) :
                  call.result[i].id # call.target_app.id

\* the target is in the list together with another application that has
\* the target's id, and something was returned
C1_Witness ==
    /\ IsFind
    /\ call.target_app \in Candidates
    /\ \E app \in Candidates : app # call.target_app /\ app.id = call.target_app.id
    /\ call.result # <<>>

\* C2: the length of the returned sequence is at most max_results, for
\* every configured integer value of max_results (6 when absent).
C2_LengthAtMostMaxResults ==
    IsFind => Len(call.result) <= MaxResults

\* C3: every returned application has a total score >= min_score (3 when
\* absent); a candidate whose total is below min_score is never returned;
\* a candidate whose shared categories alone reach min_score, with zero
\* semantic overlap, passes the threshold, so it is missing from the result
\* only when the result was cut at max_results.
C3_ScoreAtLeastMinScore ==
    IsFind =>
        /\ \A app \in Returned : CallScore(app) >= MinScore
        /\ \A app \in Candidates : CallScore(app) < MinScore => app \notin Returned
        /\ \A app \in Candidates :
               /\ app.id # call.target_app.id
               /\ CallBreakdown(app).semantic = 0
               /\ CallBreakdown(app).categories >= MinScore
               /\ app \notin Returned
               => MaxResults < 0 \/ Len(call.result) = MaxResults

\* one candidate is returned on its categories alone, another is left out
\* below the threshold
C3_Witness ==
    /\ IsFind
    /\ \E app \in Returned :
           /\ CallBreakdown(app).semantic = 0
           /\ CallBreakdown(app).categories >= MinScore
           /\ CallScore(app) - CallBreakdown(app).categories < MinScore
    /\ \E app \in Candidates :
           /\ app.id # call.target_app.id
           /\ CallScore(app) < MinScore

\* star count with a missing value read as 0
StarsOrZero(app) == IF app.stars = None THEN 0 ELSE Val(app.stars)

\* app1 may stand before app2 under the tiebreakers, in their configured
\* order: stars descending, lowercased name ascending, other names skipped
RECURSIVE TieOrdered(_, _, _)
TieOrdered(app1, app2, tiebreakers) ==
    IF tiebreakers = <<>> THEN TRUE
    ELSE IF Head(tiebreakers) = "stars"
    THEN \/ StarsOrZero(app1) > StarsOrZero(app2)
         \/ /\ StarsOrZero(app1) = StarsOrZero(app2)
            /\ TieOrdered(app1, app2, Tail(tiebreakers))
    ELSE IF Head(tiebreakers) = "name"
    THEN \/ StrLess(lower(app1.name), lower(app2.name))
         \/ /\ lower(app1.name) = lower(app2.name)
            /\ TieOrdered(app1, app2, Tail(tiebreakers))
    ELSE TieOrdered(app1, app2, Tail(tiebreakers))

\* C4: the result is ordered by total score descending and, among equal
\* scores, by the configured tiebreakers in their configured order
\* (default: stars, then name).
C4_OrderedByScoreThenTiebreakers ==
    IsFind =>
        \A i \in 1..(Len(call.result) - 1) :
            \/ CallScore(call.result[i]) > CallScore(call.result[i + 1])
            \/ /\ CallScore(call.result[i]) = CallScore(call.result[i + 1])
               /\ TieOrdered(call.result[i], call.result[i + 1], Tiebreakers)

\* under the default tiebreakers three returned applications have the same
\* score: the first two are told apart by stars, the last two have star
\* counts None and 0 and are told apart by name
C4_Witness ==
    /\ IsFind
    /\ "tiebreakers" \notin DOMAIN config
    /\ \E i \in 1..(Len(call.result) - 2) :
           /\ CallScore(call.result[i]) = CallScore(call.result[i + 2])
           /\ StarsOrZero(call.result[i]) > StarsOrZero(call.result[i + 1])
           /\ StarsOrZero(call.result[i + 1]) = StarsOrZero(call.result[i + 2])
           /\ call.result[i + 1].stars # call.result[i + 2].stars
           /\ lower(call.result[i + 1].name) # lower(call.result[i + 2].name)
           /\ PosOf(call.result[i]) > PosOf(call.result[i + 2])

\* app1 and app2 tie on total score and on every configured tiebreaker
FullTie(app1, app2) ==
    /\ CallScore(app1) = CallScore(app2)
    /\ TieOrdered(app1, app2, Tiebreakers)
    /\ TieOrdered(app2, app1, Tiebreakers)

\* C5: candidates that tie on score and on every configured tiebreaker
\* keep their input order in the result, and when the result is cut between
\* them it is the earlier one of the input that stays.
C5_StableOrder ==
    IsFind =>
        /\ \A i, j \in 1..Len(call.result) :
               i < j /\ FullTie(call.result[i], call.result[j])
               => PosOf(call.result[i]) < PosOf(call.result[j])
        /\ \A app1 \in Returned : \A app2 \in Candidates :
               /\ app2.id # call.target_app.id
               /\ CallScore(app2) >= MinScore
               /\ FullTie(app1, app2)
               /\ PosOf(app2) < PosOf(app1)
               => app2 \in Returned

\* three applications tie on everything; the result is cut after two of
\* them, which are the first two of the input
C5_Witness ==
    /\ IsFind
    /\ \E i, j \in 1..Len(call.result) :
           /\ i < j
           /\ FullTie(call.result[i], call.result[j])
           /\ call.result[i].name # call.result[j].name
    /\ \E app1 \in Returned : \E app2 \in Candidates \ Returned :
           /\ app2.id # call.target_app.id
           /\ CallScore(app2) >= MinScore
           /\ FullTie(app1, app2)

\* the tiebreakers list without the names that are not recognised
RECURSIVE Recognised(_)
Recognised(tiebreakers) ==
    IF tiebreakers = <<>> THEN <<>>
    ELSE IF Head(tiebreakers) \in {"stars", "name"}
         THEN <<Head(tiebreakers)>> \o Recognised(Tail(tiebreakers))
         ELSE Recognised(Tail(tiebreakers))

ConfigWithTiebreakers(tiebreakers) ==
    [key \in DOMAIN config \cup {"tiebreakers"} |->
        IF key = "tiebreakers" THEN tiebreakers ELSE config[key]]

\* C6: a tiebreaker name other than "stars" and "name" has no effect: the
\* result is the one obtained with that name removed from the list.
C6_UnknownTiebreakerIgnored ==
    IsFind =>
        call.ranked = RankedItems(call.target_app, call.all_applications,
                                  CallPhrases,
                                  ConfigWithTiebreakers(Recognised(Tiebreakers)),
                                  licenses_data)

\* the list holds a name that is not recognised, and the recognised rest
\* decides the order of two returned applications of equal score
C6_Witness ==
    /\ IsFind
    /\ Recognised(Tiebreakers) # Tiebreakers
    /\ \E i \in 1..(Len(call.result) - 1) :
           /\ CallScore(call.result[i]) = CallScore(call.result[i + 1])
           /\ ~FullTie(call.result[i], call.result[i + 1])
           /\ PosOf(call.result[i]) > PosOf(call.result[i + 1])

\* C7: the semantic contribution computed for any pair is an integer in
\* 0..25, however many phrases the two descriptions share.
C7_SemanticBounded ==
    IsFind /\ call.semantic =>
        \A app \in Candidates :
            _calculate_semantic_similarity(call.target_app, app, CallPhrases)
                \in 0..25

\* the weights of the shared phrases add up to more than 25
C7_Witness ==
    /\ IsFind /\ call.semantic
    /\ \E app \in Candidates :
           /\ app.id # call.target_app.id
           /\ SumWeights(Get(CallPhrases, app.id, {})
                  \cap Get(CallPhrases, call.target_app.id, {})) > 25 * WeightScale
           /\ CallBreakdown(app).semantic = 25

---------------------------------------------------------------------------
(* Properties of the phrase cache, over the steps of Spec *)

\* the step is a find_related_apps call with semantic similarity enabled
FindStep == call'.op = "find" /\ call'.semantic

\* C8: phrase sets are computed only on a call whose list identity differs
\* from the stored one or when the cache is empty; in a run of consecutive
\* calls with the same list object and no clear_cache in between, they are
\* computed exactly once, on the first call of the run.
C8_ComputedOncePerList ==
    [][FindStep =>
          /\ call'.computed =>
                 \/ _cached_app_phrases = None
                 \/ _cached_app_list_id # Some(call'.list_id)
          /\ call'.computed <=> last_call_list # Some(call'.list_id)]_vars

\* C9: a call with a list object distinct from the one whose phrase sets
\* are cached always recomputes them, and so does the first call after
\* clear_cache, even for the same list object.
C9_DistinctListRecomputes ==
    [][FindStep =>
          (~(cached_list_alive /\ _cached_app_list_id = Some(call'.list_id))
              => call'.computed)]_vars

\* C10: with the popularity signal enabled a candidate receives
\* same_tier_score exactly when it and the target both have a star count
\* (0 included) in the same popularity tier, and nothing otherwise.
C10_PopularityParity ==
    IsFind /\ Get(Get(Get(config, "scoring", EmptyDict), "popularity", EmptyDict),
                  "enabled", TRUE) =>
        \A app \in Candidates :
            app.id # call.target_app.id =>
            CallBreakdown(app).popularity =
                IF /\ app.stars # None /\ call.target_app.stars # None
                   /\ get_popularity_tier(Val(app.stars))
                          = get_popularity_tier(Val(call.target_app.stars))
                THEN Get(Get(Get(config, "scoring", EmptyDict), "popularity", EmptyDict),
                         "same_tier_score", 1)
                ELSE 0

---------------------------------------------------------------------------
(* Properties of the single signals *)

\* the tier of a star count as the five ranges state it
TierOfRange(stars) ==
    IF stars \in 0..99 THEN "emerging"
    ELSE IF stars \in 100..999 THEN "moderate"
    ELSE IF stars \in 1000..4999 THEN "popular"
    ELSE IF stars \in 5000..9999 THEN "highly"
    ELSE "mega"

\* C11: get_popularity_tier maps a non-negative star count to exactly one
\* of five tiers with inclusive lower bounds (>= 10000 mega, 5000..9999
\* highly, 1000..4999 popular, 100..999 moderate, 0..99 emerging); star
\* counts in different tiers, such as 12000 and 9000, earn no
\* popularity-parity bonus.
C11_TierBoundaries ==
    call.op = "get_popularity_tier" =>
    /\ call.result \in {"mega", "highly", "popular", "moderate", "emerging"}
    /\ call.result = TierOfRange(call.stars)
    /\ \A stars \in StarSamples :
           TierOfRange(stars) # TierOfRange(call.stars)
           => ScoreBreakdown(StarApp(call.stars), StarApp(stars), EmptyDict,
                             config, licenses_data).popularity = 0

\* the tier of a star count that is the inclusive lower bound of its tier
C11_Witness ==
    /\ call.op = "get_popularity_tier"
    /\ call.stars = 5000
    /\ call.result = "highly"

\* C12: with a license registry supplied (any mapping, an empty one
\* included) is_app_nonfree is true exactly when one of the application's
\* license identifiers is a key of the registry whose entry has
\* free = false; absent identifiers count as free, the match is exact, and
\* the proprietary marker plays no part.
C12_RegistryDecides ==
    call.op = "is_app_nonfree" /\ licenses_data # None =>
        call.result =
            \E i \in 1..Len(call.app.license) :
                /\ call.app.license[i] \in DOMAIN Val(licenses_data)
                /\ "free" \in DOMAIN Val(licenses_data)[call.app.license[i]]
                /\ Val(licenses_data)[call.app.license[i]].free = FALSE

\* C13: is_app_nonfree is false for an application without licenses; with
\* no registry supplied it is true exactly when one of the license
\* identifiers is the proprietary marker of the license data.
C13_MarkerFallback ==
    call.op = "is_app_nonfree" =>
        /\ call.app.license = <<>> => call.result = FALSE
        /\ licenses_data = None =>
               call.result =
                   \E i \in 1..Len(call.app.license) :
                       call.app.license[i] = ProprietarySymbol

\* the `enabled` flag of a signal as the configuration states it, true
\* when the configuration says nothing
FlagEnabled(name) ==
    LET scoring == IF "scoring" \in DOMAIN config THEN config.scoring ELSE EmptyDict
    IN  IF name \in DOMAIN scoring /\ "enabled" \in DOMAIN scoring[name]
        THEN scoring[name].enabled
        ELSE TRUE

\* the configuration with every signal switched on
ConfigAllEnabled ==
    LET scoring == IF "scoring" \in DOMAIN config THEN config.scoring ELSE EmptyDict
        SectionOn(name) ==
            LET section == IF name \in DOMAIN scoring THEN scoring[name] ELSE EmptyDict
            IN  [key \in DOMAIN section \cup {"enabled"} |->
                    IF key = "enabled" THEN TRUE ELSE section[key]]
    IN  [key \in DOMAIN config \cup {"scoring"} |->
            IF key = "scoring" THEN [name \in SignalNames |-> SectionOn(name)]
            ELSE config[key]]

\* what each signal is worth for a candidate when all eight are on
AllOn(app) ==
    ScoreBreakdown(call.target_app, app,
                   _precompute_app_phrases(call.all_applications),
                   ConfigAllEnabled, licenses_data)

\* the worth of a signal if its flag is on, 0 if it is off
Term(name, worth) == IF FlagEnabled(name) THEN worth ELSE 0

SumOfEnabled(app) ==
    Term("semantic_similarity", AllOn(app).semantic)
        + Term("categories", AllOn(app).categories)
        + Term("alternatives", AllOn(app).alternatives)
        + Term("forks", AllOn(app).forks)
        + Term("platforms", AllOn(app).platforms)
        + Term("license", AllOn(app).license)
        + Term("popularity", AllOn(app).popularity)
        + Term("dependencies", AllOn(app).dependencies)

\* C14: the total score of a candidate is the sum of the contributions of
\* the signals that are enabled (each enabled when the configuration does
\* not mention it); a signal whose enabled flag is false adds nothing, and
\* the other seven contribute what they contribute when it is on.
C14_SumOfEnabledSignals ==
    IsFind =>
        /\ \A i \in 1..Len(call.ranked) :
               call.ranked[i].score = SumOfEnabled(call.ranked[i].app)
        /\ \A app \in Candidates :
               app.id # call.target_app.id /\ SumOfEnabled(app) >= MinScore
               => app \in Returned

\* the contribution of the signal with the given configuration name
Worth(name, breakdown) ==
    IF name = "semantic_similarity" THEN breakdown.semantic ELSE breakdown[name]

\* a returned candidate for which the disabled signal would have been worth
\* something, and whose score comes from the signals that are on
C14_Witness ==
    /\ IsFind
    /\ \E i \in 1..Len(call.ranked) : \E off \in SignalNames :
           /\ ~FlagEnabled(off)
           /\ Worth(off, AllOn(call.ranked[i].app)) > 0
           /\ call.ranked[i].score > 0

\* the entries of an alternative_to list, lowercased and trimmed
NormalisedAlts(alternative_to) ==
    {strip(lower(alternative_to[i])) : i \in 1..Len(alternative_to)}

\* C15: with the alternatives signal enabled its contribution is
\* points_per_match (6 when absent) times the number of elements the two
\* alternative_to lists have in common after lowercasing and trimming each
\* element and collapsing duplicates, and 0 when either list is empty.
C15_AlternativesCount ==
    call.op = "_calculate_alternative_similarity" /\ FlagEnabled("alternatives") =>
        call.result =
            IF call.target_app.alternative_to = <<>> \/ call.app.alternative_to = <<>>
            THEN 0
            ELSE Get(Get(Get(config, "scoring", EmptyDict), "alternatives", EmptyDict),
                     "points_per_match", 6)
                 * Cardinality(NormalisedAlts(call.target_app.alternative_to)
                                   \cap NormalisedAlts(call.app.alternative_to))

\* the target names the same software twice in different spellings and the
\* candidate names it in a third spelling: one match is counted
C15_Witness ==
    /\ call.op = "_calculate_alternative_similarity"
    /\ FlagEnabled("alternatives")
    /\ Len(call.target_app.alternative_to) = 2
    /\ call.target_app.alternative_to[1] # call.target_app.alternative_to[2]
    /\ Cardinality(NormalisedAlts(call.target_app.alternative_to)) = 1
    /\ call.app.alternative_to \notin
           {<<>>, <<call.target_app.alternative_to[1]>>,
            <<call.target_app.alternative_to[2]>>}
    /\ Len(call.app.alternative_to) = 1
    /\ call.result = 5

---------------------------------------------------------------------------
(* Properties of the failures of find_related_apps *)

\* the signal that reads an optional field
SignalOf(field) ==
    IF field = "description" THEN "semantic"
    ELSE IF field = "alternative_to" THEN "alternatives"
    ELSE IF field = "fork_of" THEN "forks"
    ELSE IF field = "stars" THEN "popularity"
    ELSE field

\* the field is None or empty (0 for stars)
Lacks(app, field) ==
    \/ app[field] = <<>>
    \/ field \in {"description", "fork_of"} /\ app[field] = Some("")
    \/ field = "stars" /\ app[field] = Some(0)

\* C16: a missing or empty optional field (description, license, stars,
\* platforms, categories, alternative_to, fork_of) on the target or on a
\* candidate never makes find_related_apps raise: the call returns a result
\* in which the signal of that field contributes 0 for the pair.
C16_MissingFieldsNeverRaise ==
    IsFind =>
        /\ ~call.raised
        /\ \A app \in Candidates, field \in OptionalFields :
               /\ app.id # call.target_app.id
               /\ Lacks(call.target_app, field) \/ Lacks(app, field)
               => CallBreakdown(app)[SignalOf(field)] = 0

\* a call whose target has only the required fields returned a candidate
\* that has no stars
C16_Witness ==
    /\ IsFind
    /\ ~call.raised
    /\ call.target_app = AppBare
    /\ \E app \in Returned : app.stars = None /\ app.fork_of # None

\* the numbers find_related_apps reads from the configuration are numbers
WellTyped(cfg) ==
    LET scoring_config == Get(cfg, "scoring", EmptyDict)
        Number(name, key) ==
            IsInt(Get(Get(scoring_config, name, EmptyDict), key, 0))
    IN  /\ IsInt(Get(cfg, "min_score", 3))
        /\ IsInt(Get(cfg, "max_results", 6))
        /\ Number("categories", "points_per_match")
        /\ Number("alternatives", "points_per_match")
        /\ Number("platforms", "points_per_match")
        /\ Number("forks", "same_parent_score")
        /\ Number("license", "same_type_score")
        /\ Number("popularity", "same_tier_score")
        /\ Number("dependencies", "same_status_score")

\* C17: a configuration value of the wrong type (a points_per_match that is
\* not a number) is rejected when the finder is constructed, so no
\* find_related_apps call of a constructed finder fails in the middle of the
\* computation.
C17_NoFailureInsideFind ==
    IsFind => ~call.raised

\* a call that raised although the finder had been constructed
C17_RaisedInsideFind ==
    /\ IsFind
    /\ call.raised
    /\ ~WellTyped(config)
    /\ ~IsInt(Get(Get(Get(config, "scoring", EmptyDict), "categories", EmptyDict),
                  "points_per_match", 4))

---------------------------------------------------------------------------
(* Properties of interleaved calls *)

\* the phrase map of a list object
MapOf(all_applications) == Some(_precompute_app_phrases(all_applications))

\* C18: the phrase cache of one finder is unsafe under unguarded concurrent
\* use: with two interleaved calls on different list objects a call scores
\* with the phrase map built from the other call's list. Such a map is
\* always one read from the shared cache (line 54): a call that computed
\* the map itself scores with the map of its own list, and every map a call
\* scores with is the map of one of the two lists.
C18_ForeignMapOnlyFromCache ==
    IsFind /\ call.semantic =>
        /\ call.computed => call.app_phrases = MapOf(call.all_applications)
        /\ \E a \in Addr :
               heap[a] # None /\ call.app_phrases = MapOf(Val(heap[a]))

\* a call on one list object scored with the map of the other list object,
\* and ranked differently from what its own map gives
C18_Witness ==
    /\ IsFind
    /\ call.semantic
    /\ ~call.computed
    /\ call.app_phrases # MapOf(call.all_applications)
    /\ \E a \in Addr :
           /\ a # call.list_id
           /\ heap[a] # None
           /\ call.app_phrases = MapOf(Val(heap[a]))
    /\ call.ranked # RankedItems(call.target_app, call.all_applications,
                                 _precompute_app_phrases(call.all_applications),
                                 config, licenses_data)

---------------------------------------------------------------------------
(* Properties of the phrase sets *)

\* C20: no entry of the generic denylist has semantic value: for every
\* description the phrase set of _extract_significant_phrases contains no
\* member of generic_words, one-word entries and the two-word entries
\* "open source" and "self hosted" alike.
C20_NoDenylistEntryInPhrases ==
    call.op = "_extract_significant_phrases" =>
        call.result \cap generic_words = {}

\* the sum of the weights of a set of phrases, without rounding
RECURSIVE ExactSum(_)
ExactSum(phrases) ==
    IF phrases = {} THEN BigOf(0)
    ELSE TheOne({BigAdd(weight, rest) :
                    weight \in {FloatWeight(CHOOSE p \in phrases : TRUE)},
                    rest \in {ExactSum(phrases \ {CHOOSE p \in phrases : TRUE})}})

\* C19: the semantic contribution of a pair equals min(trunc(S), 25), S
\* being the sum of weight(p) over the phrases common to the two phrase
\* sets: summed first, truncated once, then capped; 0 when a phrase set or
\* the intersection is empty.
C19_SemanticIsTruncatedSum ==
    call.op = "_calculate_semantic_similarity" =>
        LET common == CommonPhrases(call.target_app, call.app, call.app_phrases)
        IN  call.result =
                IF common = {} THEN 0
                ELSE Min(FloatTrunc(ExactSum(common)), SemanticCap)

---------------------------------------------------------------------------
(* Properties of text normalisation and phrase extraction *)

IsAlnum(c) == c \in LowerSet \/ IsUpper(c) \/ c \in DigitSet

KeepAlnumSpaceHyphenAt(s, i) ==
    LET c == CharAt(s, i)
    IN  IF IsAlnum(c) \/ IsSpace(c) \/ c = "-" THEN c ELSE " "

\* lowercase, every character that is not alphanumeric, whitespace or a
\* hyphen replaced by a space, runs of whitespace collapsed, ends trimmed
AlnumNormalized(description) ==
    strip(CollapseSpaces(MapChars(KeepAlnumSpaceHyphenAt, lower(description),
                                  1, Len(description))))

\* C21: the text _extract_significant_phrases works on is the description
\* in lowercase with every character that is not alphanumeric, whitespace
\* or a hyphen replaced by a space (an underscore included), each run of
\* whitespace collapsed to one space and both ends trimmed; an empty or
\* missing description yields the empty result.
C21_NormalizedText ==
    call.op = "_extract_significant_phrases" =>
        IF call.description = None \/ Val(call.description) = ""
        THEN call.result = {}
        ELSE call.text = Some(AlnumNormalized(Val(call.description)))

\* the words of the normalized description of an extraction
CallWords == IF call.text = None THEN <<>> ELSE split(Val(call.text))

\* the words offset..offset+L-1 joined with single spaces
WindowPhrase(words, L, offset) == JoinRange(words, offset, offset + L - 1)

\* C22: _extract_significant_phrases returns exactly the set of the windows
\* of L consecutive words of the normalized description, for L in 1..4 and
\* every starting offset, joined with single spaces, that pass
\* _is_significant_phrase; fewer than L words give no window of length L,
\* and a phrase that occurs several times appears once.
C22_ResultIsSignificantWindows ==
    call.op = "_extract_significant_phrases" =>
        call.result =
            UNION {{WindowPhrase(CallWords, L, offset) :
                        offset \in {o \in 1..(Len(CallWords) - L + 1) :
                            _is_significant_phrase(
                                WindowPhrase(CallWords, L, o), L)}} :
                   L \in 1..4}

\* three words: no window of four, and "wiki" and "wiki wiki" occur more
\* than once
C22_Witness ==
    /\ call.op = "_extract_significant_phrases"
    /\ Len(CallWords) = 3
    /\ CallWords[1] = CallWords[2]
    /\ call.result = {"wiki", "wiki wiki", "wiki wiki wiki"}

\* the leading connectors
LeadingConnectors ==
    {"with", "and", "for", "the", "a", "an", "is", "are", "can", "will",
     "has", "have", "you", "your", "it", "its", "this", "that", "also",
     "using", "used", "like", "such"}

\* strictly more than half of the words are in the generic denylist
MostlyGeneric(words) ==
    2 * Cardinality({i \in 1..Len(words) : words[i] \in generic_words})
        > Len(words)

AllShort(words) == \A i \in 1..Len(words) : Len(words[i]) <= 2

\* C23: a phrase of 2 to 4 words is significant exactly when none of three
\* rejections applies: strictly more than half of its words are in the
\* generic denylist, its first word is a leading connector, or every one
\* of its words has length <= 2.
C23_SignificantUnlessRejected ==
    (call.op = "_is_significant_phrase" /\ call.length \in 2..4) =>
        LET words == split(call.phrase)
        IN  call.result <=>
                ~(\/ MostlyGeneric(words)
                  \/ words[1] \in LeadingConnectors
                  \/ AllShort(words))

\* a two-word phrase with exactly one denylisted word is accepted
C23_Witness ==
    /\ call.op = "_is_significant_phrase"
    /\ call.phrase = "free wiki"
    /\ "free" \in generic_words /\ "wiki" \notin generic_words
    /\ call.result

---------------------------------------------------------------------------
(* Properties of the phrase weights *)

\* the maximal runs of letters, digits and underscores of a phrase
WordRuns(phrase) ==
    {SubSeq(phrase, v[1], v[2]) : v \in
        {w \in (1..Len(phrase)) \X (1..Len(phrase)) :
            /\ w[1] <= w[2]
            /\ \A k \in w[1]..w[2] : IsWordChar(CharAt(phrase, k))
            /\ (w[1] = 1 \/ ~IsWordChar(CharAt(phrase, w[1] - 1)))
            /\ (w[2] = Len(phrase) \/ ~IsWordChar(CharAt(phrase, w[2] + 1)))}}

\* some word has two non-empty parts joined by a hyphen or an underscore
HasJoinedCompound(phrase) ==
    \E i \in 1..Len(split(phrase)) :
        LET word == split(phrase)[i]
        IN  \E k \in 2..(Len(word) - 1) :
                /\ CharAt(word, k) \in {"-", "_"}
                /\ IsWordChar(CharAt(word, k - 1))
                /\ IsWordChar(CharAt(word, k + 1))

MeanWordLengthExceeds(phrase, n) ==
    SumSeq([i \in 1..Len(split(phrase)) |-> Len(split(phrase)[i])])
        > n * Len(split(phrase))

ContainsBuzzword(phrase) ==
    \E buzz \in {"server", "web", "management", "platform", "system",
                  "application", "lightweight", "high-performance", "modern"} :
        Contains(phrase, buzz)

HasDigitRun(phrase) == \E run \in WordRuns(phrase) : isdigit(run)

\* a word of more than one character begins with a capital
HasCapital(phrase) ==
    \E i \in 1..Len(split(phrase)) :
        /\ Len(split(phrase)[i]) > 1
        /\ IsUpper(Head(split(phrase)[i]))

\* 2.0, 4.0, 6.0, 8.0 for 1, 2, 3, 4 or more words
WordCountWeight(phrase) ==
    FloatOfInt(2 * Min(Len(split(phrase)), 4))

\* the base weight times the four factors, the float products taken in
\* the order of the list
WeightOfFourFactors(phrase) ==
    FloatTimes(FloatTimes(FloatTimes(FloatTimes(
        WordCountWeight(phrase),
        HasJoinedCompound(phrase), 13),
        MeanWordLengthExceeds(phrase, 6), 11),
        ContainsBuzzword(phrase), 9),
        HasDigitRun(phrase), 11)

\* the same with the factor 1.2 for a capitalized word, second in order
WeightOfFiveFactors(phrase) ==
    FloatTimes(FloatTimes(FloatTimes(FloatTimes(FloatTimes(
        WordCountWeight(phrase),
        HasJoinedCompound(phrase), 13),
        HasCapital(phrase), 12),
        MeanWordLengthExceeds(phrase, 6), 11),
        ContainsBuzzword(phrase), 9),
        HasDigitRun(phrase), 11)

C25_NoCapitalizationBoost ==
    call.op = "_extract_significant_phrases" =>
        \A phrase \in call.result :
            /\ ~HasCapitalizedWord(phrase)
            /\ FloatPhraseWeight(phrase) = WeightOfFourFactors(phrase)

---------------------------------------------------------------------------
(* Properties of the phrase cache *)

\* C26: on every find_related_apps call with semantic similarity enabled,
\* after any earlier calls of find_related_apps and clear_cache, the phrase
\* map used for scoring holds, for each application of the passed list,
\* exactly the phrase set of that application's current description, also
\* when the same list object was modified in place since the call that
\* filled the cache.
C26_MapIsOfCurrentDescriptions ==
    (IsFind /\ call.semantic) =>
        \A i \in 1..Len(call.all_applications) :
            LET app == call.all_applications[i]
            IN  /\ app.id \in DOMAIN Val(call.app_phrases)
                /\ Val(call.app_phrases)[app.id] =
                       ExtractedPhrases(app.description)

\* the semantic score computed from the two descriptions alone: both
\* phrase sets extracted, intersected, the weights summed, the sum
\* truncated and capped
DirectSemantic(target_app, app) ==
    LET common == ExtractedPhrases(target_app.description)
                      \cap ExtractedPhrases(app.description)
    IN  Min(SumWeights(common) \div WeightScale, SemanticCap)

\* C27: for every target and candidate the semantic score obtained through
\* the precomputed id-keyed phrase map equals the score computed directly
\* from the two applications' descriptions, also when the target is not an
\* element of the candidate list and when two applications of the list
\* share an id.
C27_MapScoreEqualsDirectScore ==
    (IsFind /\ call.semantic /\ ~call.raised) =>
        \A app \in Candidates :
            app.id # call.target_app.id =>
                CallBreakdown(app).semantic
                    = DirectSemantic(call.target_app, app)

---------------------------------------------------------------------------
(* Properties of the scoring of a pair in both directions *)

\* the total the last call computed for its one candidate, when the
\* candidate met the threshold
PassedScore(c) == IF c.ranked = <<>> THEN None ELSE Some(c.ranked[1].score)

\* C28: scoring is symmetric: for two applications a and b with different
\* ids that are both in the candidate list, under one configuration and
\* license registry, the total score computed for b when a is the target
\* equals the total score computed for a when b is the target, so b
\* passes the min_score threshold for a exactly when a passes it for b.
C28_ScoringIsSymmetric ==
    [][(/\ call.op = "find"
        /\ call'.op = "find"
        /\ call'.target_app.id # call.target_app.id)
          => PassedScore(call') = PassedScore(call)]_vars

---------------------------------------------------------------------------
(* Frame of a call with semantic similarity switched off *)

\* scoring.semantic_similarity.enabled is present and false
SemanticSwitchedOff ==
    /\ "scoring" \in DOMAIN config
    /\ "semantic_similarity" \in DOMAIN config.scoring
    /\ "enabled" \in DOMAIN config.scoring.semantic_similarity
    /\ ~config.scoring.semantic_similarity.enabled

\* C29: when semantic similarity is disabled in the configuration,
\* find_related_apps leaves the phrase cache unchanged: it neither fills
\* nor replaces nor clears _cached_app_phrases and _cached_app_list_id, and
\* it computes no phrase sets.
C29_DisabledLeavesCacheAlone ==
    [][(call'.op = "find" /\ SemanticSwitchedOff) =>
          /\ _cached_app_phrases' = _cached_app_phrases
          /\ _cached_app_list_id' = _cached_app_list_id
          /\ ~call'.computed
          /\ call'.app_phrases = None]_vars

\* a call with semantic similarity off has left a filled cache as it was
\* (its list is another than the cached one) and has returned a result
C29_Witness ==
    /\ IsFind
    /\ SemanticSwitchedOff
    /\ ~call.semantic
    /\ _cached_app_phrases # None
    /\ _cached_app_list_id # Some(call.list_id)
    /\ call.result # <<>>

---------------------------------------------------------------------------
(* The two cache fields *)

\* the ids of the applications of a list
IdsOf(all_applications) ==
    {all_applications[i].id : i \in 1..Len(all_applications)}

\* C30: in every state reachable by construction, find_related_apps and
\* clear_cache calls on one thread, _cached_app_phrases is None exactly
\* when _cached_app_list_id is None, and when both are set the cached map
\* has an entry for every id of the candidate list as it was when the
\* cache was filled: the map changes only when a call fills it from its
\* list or clear_cache empties it.
C30_CacheFieldsAgree ==
    [][/\ (_cached_app_phrases' = None) <=> (_cached_app_list_id' = None)
       /\ _cached_app_phrases' # _cached_app_phrases =>
              \/ call'.op = "clear" /\ _cached_app_phrases' = None
              \/ /\ call'.op = "find"
                 /\ call'.computed
                 /\ _cached_app_list_id' = Some(call'.list_id)
                 /\ IdsOf(call'.all_applications)
                        \subseteq DOMAIN Val(_cached_app_phrases')]_vars

\* a call has filled both fields from a list of three applications
C30_Witness ==
    /\ IsFind
    /\ call.computed
    /\ _cached_app_phrases # None
    /\ _cached_app_list_id = Some(call.list_id)
    /\ Len(call.all_applications) = 3
    /\ DOMAIN Val(_cached_app_phrases) = IdsOf(call.all_applications)

====
